---- MODULE Spec2Model ----
(***************************************************************************)
(* Voice20: the voice-assistant session controller                         *)
(* (src/components/VoiceAssistant.tsx), modelled as a state machine.       *)
(*                                                                         *)
(* The component runs on one cooperative event loop: every action below is *)
(* one task of that loop (a click handler, the continuation of an await, a *)
(* callback of the live session, an "ended" event, a timer).  An async     *)
(* function is split at its awaits.                                        *)
(*                                                                         *)
(* The App component (src/App.tsx) owns the connectivity state and the     *)
(* reconciliation of pending notes with the note store                     *)
(* (services/storageService).                                              *)
(***************************************************************************)
EXTENDS Integers, Sequences, FiniteSets, TLC

\* ------------------------------------------------------------------ bounds
\* Spec, the session lifecycle (the output clock stands still in it):
MaxStarts == 1      \* startSession invocations in one behaviour
MaxCtlChunks == 1   \* audio chunks received in one behaviour
MaxCtlDur == 1      \* longest chunk duration, in ticks
\* OverlapSpec, the same lifecycle with room for a second invocation:
MaxOverlap == 2     \* startSession invocations in one behaviour
\* SchedSpec, playback within one open session:
MaxChunks == 2      \* audio chunks received in one behaviour
MaxClock == 2       \* ticks of the output clock
MaxDur == 2         \* longest chunk duration, in ticks
\* CaptureSpec, the capture pipeline (with MaxOverlap invocations):
MaxFrames == 2      \* frames delivered to onaudioprocess in one behaviour
\* SyncSpec, the reconciliation of pending notes:
MaxNotes == 2       \* notes in the store besides the seed note
MaxRuns == 2        \* invocations of processPendingNotes in one behaviour
\* NotesSpec, the capture flows and the deletion beside the reconciliation:
MaxOps == 2         \* capture and delete operations in one behaviour
\* ReconcileSpec, runs of processPendingNotes one after the other:
MaxRetryNotes == 1  \* notes in the store besides the seed note
\* ResampleSpec, one call of downsampleTo16k:
MaxLen == 3         \* samples in the input block
\* AddSpec, the capture flows beside the first reconciliation:
MaxAdds == 1        \* capture operations in one behaviour

Max(a, b) == IF a >= b THEN a ELSE b
Min(a, b) == IF a <= b THEN a ELSE b

\* The ids of startSession invocations, and of the context, stream, session
\* and capture nodes each one creates.
Ids == 1..Max(MaxStarts, MaxOverlap)
Null == 0

\* ------------------------------------------------------------------- state
VARIABLES
    isActive,           \* useState(false)
    status,             \* useState('idle')
    error,              \* useState(null); "null" is no error
    isOnline,           \* prop isOnline
    apiKey,             \* process.env.API_KEY is set
    now,                \* the monotonic clock behind ctx.currentTime
    audioContextRef,    \* refs: Null or the id of the object held
    mediaStreamRef,
    processorRef,
    sourceNodeRef,
    sessionPromiseRef,
    activeSourcesRef,   \* set of chunk ids
    nextStartTimeRef,
    isSessionOpenRef,
    calls,              \* startSession invocations: where each is suspended
    contexts,           \* the AudioContext created by invocation i
    streams,            \* the MediaStream acquired by invocation i
    sessions,           \* the live session connected by invocation i
    sourceNodes,        \* MediaStreamAudioSourceNode made by onopen of session i
    processors,         \* ScriptProcessorNode made by onopen of session i
    chunks,             \* every AudioBufferSourceNode scheduled, in arrival order
    timers,             \* pending 200 ms debounce timeouts
    captured,           \* frames delivered to onaudioprocess so far
    queued,             \* per session: frames whose then-callback waits
                        \* for the session promise, in registration order
    sent,               \* per session: frames passed to sendRealtimeInput
    decoding,           \* decodeAudioData calls that have not settled (the
                        \* variant of playAudioChunk that awaits the decode)
    store,              \* App: the notes under STORAGE_KEY, in store order
    runs,               \* App: invocations of processPendingNotes
    isSyncing,          \* App: useState(false)
    codec,              \* a call of downsampleTo16k: its arguments and result
    ops,                \* App: the user's capture and delete operations
    lastOp              \* history: the task that ran last

progVars == <<isActive, status, error, isOnline, apiKey, now, audioContextRef,
              mediaStreamRef, processorRef, sourceNodeRef, sessionPromiseRef,
              activeSourcesRef, nextStartTimeRef, isSessionOpenRef, calls,
              contexts, streams, sessions, sourceNodes, processors, chunks,
              timers, captured, queued, sent, decoding>>
appVars == <<store, runs, isSyncing>>
vars == <<progVars, lastOp, appVars, codec, ops>>

\* The program state as one record, so that a handler is a function on it.
Cur ==
    [isActive |-> isActive, status |-> status, error |-> error,
     isOnline |-> isOnline, apiKey |-> apiKey, now |-> now,
     audioContextRef |-> audioContextRef, mediaStreamRef |-> mediaStreamRef,
     processorRef |-> processorRef, sourceNodeRef |-> sourceNodeRef,
     sessionPromiseRef |-> sessionPromiseRef,
     activeSourcesRef |-> activeSourcesRef,
     nextStartTimeRef |-> nextStartTimeRef,
     isSessionOpenRef |-> isSessionOpenRef, calls |-> calls,
     contexts |-> contexts, streams |-> streams, sessions |-> sessions,
     sourceNodes |-> sourceNodes, processors |-> processors,
     chunks |-> chunks, timers |-> timers, captured |-> captured,
     queued |-> queued, sent |-> sent, decoding |-> decoding]

\* The component is left in state s.
Assign(s) ==
    /\ isActive' = s.isActive
    /\ status' = s.status
    /\ error' = s.error
    /\ isOnline' = s.isOnline
    /\ apiKey' = s.apiKey
    /\ now' = s.now
    /\ audioContextRef' = s.audioContextRef
    /\ mediaStreamRef' = s.mediaStreamRef
    /\ processorRef' = s.processorRef
    /\ sourceNodeRef' = s.sourceNodeRef
    /\ sessionPromiseRef' = s.sessionPromiseRef
    /\ activeSourcesRef' = s.activeSourcesRef
    /\ nextStartTimeRef' = s.nextStartTimeRef
    /\ isSessionOpenRef' = s.isSessionOpenRef
    /\ calls' = s.calls
    /\ contexts' = s.contexts
    /\ streams' = s.streams
    /\ sessions' = s.sessions
    /\ sourceNodes' = s.sourceNodes
    /\ processors' = s.processors
    /\ chunks' = s.chunks
    /\ timers' = s.timers
    /\ captured' = s.captured
    /\ queued' = s.queued
    /\ sent' = s.sent
    /\ decoding' = s.decoding

\* A task of the voice assistant leaves the component in state s; it does
\* not touch the state of the App.
Apply(s) == Assign(s) /\ UNCHANGED <<appVars, codec, ops>>

\* The variables hold the state s (used to state initial states).
Holds(s) ==
    /\ isActive = s.isActive
    /\ status = s.status
    /\ error = s.error
    /\ isOnline = s.isOnline
    /\ apiKey = s.apiKey
    /\ now = s.now
    /\ audioContextRef = s.audioContextRef
    /\ mediaStreamRef = s.mediaStreamRef
    /\ processorRef = s.processorRef
    /\ sourceNodeRef = s.sourceNodeRef
    /\ sessionPromiseRef = s.sessionPromiseRef
    /\ activeSourcesRef = s.activeSourcesRef
    /\ nextStartTimeRef = s.nextStartTimeRef
    /\ isSessionOpenRef = s.isSessionOpenRef
    /\ calls = s.calls
    /\ contexts = s.contexts
    /\ streams = s.streams
    /\ sessions = s.sessions
    /\ sourceNodes = s.sourceNodes
    /\ processors = s.processors
    /\ chunks = s.chunks
    /\ timers = s.timers
    /\ captured = s.captured
    /\ queued = s.queued
    /\ sent = s.sent
    /\ decoding = s.decoding

\* ------------------------------------------------------------ cleanupAudio
\* processorRef.current.disconnect(); onaudioprocess = null; ref = null
ReleaseProcessor(s) ==
    IF s.processorRef # Null
    THEN [s EXCEPT !.processors[s.processorRef] =
                       [st |-> "disconnected",
                        disconnects |-> @.disconnects + 1,
                        onaudioprocess |-> FALSE],
                   !.processorRef = Null]
    ELSE s

\* sourceNodeRef.current.disconnect(); ref = null
ReleaseSourceNode(s) ==
    IF s.sourceNodeRef # Null
    THEN [s EXCEPT !.sourceNodes[s.sourceNodeRef] =
                       [st |-> "disconnected",
                        disconnects |-> @.disconnects + 1],
                   !.sourceNodeRef = Null]
    ELSE s

\* mediaStreamRef.current.getTracks().forEach(track => track.stop()); ref = null
ReleaseStream(s) ==
    IF s.mediaStreamRef # Null
    THEN [s EXCEPT !.streams[s.mediaStreamRef] =
                       [st |-> "stopped", stops |-> @.stops + 1],
                   !.mediaStreamRef = Null]
    ELSE s

\* StopPlaying that leaves the cursor where it was.
StopPlayingKeepsCursor(s) ==
    [s EXCEPT !.chunks = [k \in DOMAIN s.chunks |->
                            IF k \in s.activeSourcesRef
                            THEN [s.chunks[k] EXCEPT !.stops = @ + 1]
                            ELSE s.chunks[k]],
              !.activeSourcesRef = {}]

\* activeSourcesRef.current.forEach(source => source.stop()); clear();
\* nextStartTimeRef.current = 0
StopPlaying(s) ==
    [s EXCEPT !.chunks = [k \in DOMAIN s.chunks |->
                            IF k \in s.activeSourcesRef
                            THEN [s.chunks[k] EXCEPT !.stops = @ + 1]
                            ELSE s.chunks[k]],
              !.activeSourcesRef = {},
              !.nextStartTimeRef = 0]

\* ReleaseContext that leaves the closed context in the ref.
ReleaseContextKeepsRef(s) ==
    IF s.audioContextRef # Null
    THEN [s EXCEPT !.contexts[s.audioContextRef] =
                       [@ EXCEPT !.st = "closed", !.closes = @ + 1]]
    ELSE s

\* audioContextRef.current.close(); ref = null
ReleaseContext(s) ==
    IF s.audioContextRef # Null
    THEN [s EXCEPT !.contexts[s.audioContextRef] =
                       [@ EXCEPT !.st = "closed", !.closes = @ + 1],
                   !.audioContextRef = Null]
    ELSE s

cleanupAudio(s) ==
    ReleaseContext(StopPlaying(ReleaseStream(ReleaseSourceNode(ReleaseProcessor(s)))))

\* ------------------------------------------------------------- stopSession
\* ReleaseSession that leaves the session promise in the ref.
ReleaseSessionKeepsRef(s) ==
    IF s.sessionPromiseRef # Null
    THEN LET i == s.sessionPromiseRef IN
         IF s.sessions[i].opened
         THEN [s EXCEPT !.sessions[i].closeCalls = @ + 1,
                        !.sessions[i].st = IF @ = "open" THEN "closing" ELSE @]
         ELSE [s EXCEPT !.sessions[i].closePending = TRUE]
    ELSE s

\* sessionPromiseRef.current.then(session => session.close()); ref = null.
\* The promise of connect is fulfilled once the socket has opened: before
\* that the close stays pending on the promise, after that it runs at once.
ReleaseSession(s) ==
    IF s.sessionPromiseRef # Null
    THEN LET i == s.sessionPromiseRef IN
         IF s.sessions[i].opened
         THEN [s EXCEPT !.sessions[i].closeCalls = @ + 1,
                        !.sessions[i].st = IF @ = "open" THEN "closing" ELSE @,
                        !.sessionPromiseRef = Null]
         ELSE [s EXCEPT !.sessions[i].closePending = TRUE,
                        !.sessionPromiseRef = Null]
    ELSE s

stopSession(s) ==
    [ReleaseSession(cleanupAudio([s EXCEPT !.isSessionOpenRef = FALSE]))
        EXCEPT !.isActive = FALSE, !.status = "idle"]

\* The offline effect reporting the loss without stopping the session.
OfflineEffectReportsOnly(s) ==
    IF ~s.isOnline /\ s.isActive
    THEN [s EXCEPT !.error = "Connection lost"]
    ELSE s

\* useEffect(() => { if (!isOnline && isActive) { stopSession();
\* setError("Connection lost") } }, [isOnline, isActive, stopSession])
OfflineEffect(s) ==
    IF ~s.isOnline /\ s.isActive
    THEN [stopSession(s) EXCEPT !.error = "Connection lost"]
    ELSE s

\* ------------------------------------------------------------ startSession
\* catch (e) { setError(e.message || "Failed to start"); setStatus('idle') }
StartCatch(s, i, message) ==
    [s EXCEPT !.error = message, !.status = "idle", !.calls[i].pc = "returned"]

\* startSession creating the audio context before its two checks.
startSessionContextFirst(s, i) ==
    LET c == [s EXCEPT !.calls[i].isActive = s.isActive,
                       !.contexts[i] =
                           [st |-> "running", closes |-> 0, base |-> s.now],
                       !.audioContextRef = i]
    IN IF ~s.isOnline
       THEN [c EXCEPT !.error = "Internet required", !.calls[i].pc = "returned"]
       ELSE LET s1 == [c EXCEPT !.error = "null", !.status = "connecting"] IN
            IF ~s.apiKey
            THEN StartCatch(s1, i, "API Key missing")
            ELSE [s1 EXCEPT !.calls[i].pc = "resume"]

\* startSession up to its first await (ctx.resume()).  The callbacks built by
\* this invocation close over the isActive of the render that called it.
startSession(s, i) ==
    LET c == [s EXCEPT !.calls[i].isActive = s.isActive] IN
    IF ~s.isOnline
    THEN [c EXCEPT !.error = "Internet required", !.calls[i].pc = "returned"]
    ELSE LET s1 == [c EXCEPT !.error = "null", !.status = "connecting"] IN
         IF ~s.apiKey
         THEN StartCatch(s1, i, "API Key missing")
         ELSE [s1 EXCEPT !.contexts[i] =
                             [st |-> "running", closes |-> 0, base |-> s.now],
                         !.audioContextRef = i,
                         !.calls[i].pc = "resume"]

\* await ctx.resume() settles; then getUserMedia is requested and awaited.
startSessionResumed(s, i, ok) ==
    IF ok
    THEN [s EXCEPT !.calls[i].pc = "getUserMedia"]
    ELSE StartCatch(s, i, "Context closed")

\* await getUserMedia() settles; then the rest of the try block runs:
\* mediaStreamRef, ai.live.connect, setIsActive(true).
startSessionStream(s, i, granted) ==
    IF granted
    THEN [s EXCEPT !.streams[i] = [st |-> "live", stops |-> 0],
                   !.mediaStreamRef = i,
                   !.sessions[i] = [st |-> "connecting", opened |-> FALSE,
                                    closeCalls |-> 0, closePending |-> FALSE],
                   !.sessionPromiseRef = i,
                   !.isActive = TRUE,
                   !.calls[i].pc = "returned"]
    ELSE StartCatch(s, i, "Permission denied")

\* ------------------------------------------------------ setupAudioPipeline
\* createMediaStreamSource / createScriptProcessor on the context and stream
\* of the invocation; on a context that was closed meanwhile the browser may
\* refuse (throws = TRUE) before any ref is assigned.
setupAudioPipeline(s, i, throws) ==
    IF throws
    THEN s
    ELSE [s EXCEPT !.sourceNodes[i] = [st |-> "connected", disconnects |-> 0],
                   !.sourceNodeRef = i,
                   !.processors[i] = [st |-> "connected", disconnects |-> 0,
                                      onaudioprocess |-> TRUE],
                   !.processorRef = i]

\* onaudioprocess that also sends at once a frame it has queued.
onaudioprocessSendsQueued(s, f) ==
    IF ~s.isSessionOpenRef \/ s.sessionPromiseRef = Null
    THEN s
    ELSE LET j == s.sessionPromiseRef IN
         IF s.sessions[j].opened
         THEN [s EXCEPT !.sent[j] = Append(@, f)]
         ELSE [s EXCEPT !.queued[j] = Append(@, f), !.sent[j] = Append(@, f)]

\* processor.onaudioprocess, delivered frame f: dropped unless the session
\* is open; else downsampled, encoded and handed to
\* sessionPromiseRef.current?.then(session => session.sendRealtimeInput(..)).
\* On a fulfilled promise the then-callback runs as the next microtask; on a
\* pending one it is queued behind those registered before it.
onaudioprocess(s, f) ==
    IF ~s.isSessionOpenRef \/ s.sessionPromiseRef = Null
    THEN s
    ELSE LET j == s.sessionPromiseRef IN
         IF s.sessions[j].opened
         THEN [s EXCEPT !.sent[j] = Append(@, f)]
         ELSE [s EXCEPT !.queued[j] = Append(@, f)]

\* The promise of connect is fulfilled: the then-callbacks registered on it
\* run in the order of their registration.
RunReactions(s, i) ==
    [s EXCEPT !.sent[i] = @ \o s.queued[i], !.queued[i] = <<>>]

\* ----------------------------------------------------------- playAudioChunk
\* pcmToAudioBuffer on a payload of byteLength bytes (base64ToUint8Array
\* gives an array of exactly that many bytes): new Int16Array(data.buffer)
\* throws unless the byte length is a multiple of 2; the buffer then holds
\* byteLength / 2 frames, and its duration is counted in frames.
Decodes(byteLength) == byteLength % 2 = 0

Duration(byteLength) == byteLength \div 2

\* The payloads a message can carry (a message with an empty payload carries
\* no audio): up to maxDur frames, of even and odd byte length.
Payloads(maxDur) == 1..(2 * maxDur + 1)

CurrentTime(s, c) == s.now - s.contexts[c].base

\* playAudioChunk whose catch block flushes the playback queue.
playAudioChunkFlushOnError(s, dur, wellFormed) ==
    IF s.audioContextRef = Null
    THEN s
    ELSE LET s1 == [s EXCEPT !.status = "speaking"]
             ctx == s.audioContextRef
             currentTime == CurrentTime(s, ctx)
             startTime == Max(currentTime, s.nextStartTimeRef)
             k == Len(s.chunks) + 1
         IN IF ~wellFormed
            THEN [StopPlaying(s1) EXCEPT !.error = "Audio decode failed"]
            ELSE [s1 EXCEPT !.chunks = Append(@, [ctx |-> ctx,
                                                  start |-> startTime,
                                                  dur |-> dur,
                                                  enq |-> currentTime,
                                                  stops |-> 0,
                                                  ended |-> FALSE]),
                            !.nextStartTimeRef = startTime + dur,
                            !.activeSourcesRef = @ \cup {k}]

\* playAudioChunk starting every chunk at the current time of the context.
playAudioChunkAtClock(s, dur, wellFormed) ==
    IF s.audioContextRef = Null
    THEN s
    ELSE LET s1 == [s EXCEPT !.status = "speaking"]
             ctx == s.audioContextRef
             currentTime == CurrentTime(s, ctx)
             k == Len(s.chunks) + 1
         IN IF ~wellFormed
            THEN [s1 EXCEPT !.error = "Audio decode failed"]
            ELSE [s1 EXCEPT !.chunks = Append(@, [ctx |-> ctx,
                                                  start |-> currentTime,
                                                  dur |-> dur,
                                                  enq |-> currentTime,
                                                  stops |-> 0,
                                                  ended |-> FALSE]),
                            !.nextStartTimeRef = currentTime + dur,
                            !.activeSourcesRef = @ \cup {k}]

playAudioChunk(s, dur, wellFormed) ==
    IF s.audioContextRef = Null
    THEN s
    ELSE LET s1 == [s EXCEPT !.status = "speaking"]
             ctx == s.audioContextRef
             currentTime == CurrentTime(s, ctx)
             startTime == Max(currentTime, s.nextStartTimeRef)
             k == Len(s.chunks) + 1
         IN IF ~wellFormed
            THEN [s1 EXCEPT !.error = "Audio decode failed"]
            ELSE [s1 EXCEPT !.chunks = Append(@, [ctx |-> ctx,
                                                  start |-> startTime,
                                                  dur |-> dur,
                                                  enq |-> currentTime,
                                                  stops |-> 0,
                                                  ended |-> FALSE]),
                            !.nextStartTimeRef = startTime + dur,
                            !.activeSourcesRef = @ \cup {k}]

\* source.onended
onended(s, k) ==
    LET s1 == [s EXCEPT !.activeSourcesRef = @ \ {k}, !.chunks[k].ended = TRUE]
    IN IF s1.activeSourcesRef = {}
       THEN [s1 EXCEPT !.timers = @ + 1]
       ELSE s1

\* The timeout callback without its test of the active set.
debounceTimeoutAnySize(s) ==
    LET s1 == [s EXCEPT !.timers = @ - 1]
    IN IF s1.isSessionOpenRef
       THEN [s1 EXCEPT !.status = "listening"]
       ELSE s1

\* the setTimeout(..., 200) callback of onended
debounceTimeout(s) ==
    LET s1 == [s EXCEPT !.timers = @ - 1]
    IN IF s1.activeSourcesRef = {} /\ s1.isSessionOpenRef
       THEN [s1 EXCEPT !.status = "listening"]
       ELSE s1

\* ------------------------------------------------- live-session callbacks
\* The socket has opened: onopen runs, then the promise of connect is
\* fulfilled and a close left pending on it by stopSession runs.
ConnectFulfilled(s, i) ==
    IF s.sessions[i].closePending
    THEN [s EXCEPT !.sessions[i].closePending = FALSE,
                   !.sessions[i].closeCalls = @ + 1,
                   !.sessions[i].st = "closing"]
    ELSE s

onopen(s, i, throws) ==
    setupAudioPipeline([s EXCEPT !.isSessionOpenRef = TRUE,
                                 !.status = "listening"], i, throws)

\* onmessage handling the interrupted signal before the embedded audio.
onmessageFlushFirst(s, audio, dur, wellFormed, interrupted) ==
    LET s1 == IF interrupted
              THEN [StopPlaying(s) EXCEPT !.status = "listening"]
              ELSE s
    IN IF audio THEN playAudioChunk(s1, dur, wellFormed) ELSE s1

onmessage(s, audio, dur, wellFormed, interrupted) ==
    LET s1 == IF audio THEN playAudioChunk(s, dur, wellFormed) ELSE s
    IN IF interrupted
       THEN [StopPlaying(s1) EXCEPT !.status = "listening"]
       ELSE s1

\* onerror that reports the error and tears nothing down.
onerrorReportsOnly(s) == [s EXCEPT !.error = "Connection error"]

\* if (isActive) stopSession(): isActive is the one startSession closed over
onclose(s, i) ==
    IF s.calls[i].isActive THEN stopSession(s) ELSE s

onerror(s) ==
    stopSession([s EXCEPT !.error = "Connection error"])

\* ----------------------------------------------------------- toggleSession
toggleSession(s, i) ==
    IF s.isActive THEN stopSession(s) ELSE startSession(s, i)

\* ------------------------------------------------ note store (App.tsx sync)
\* A note: its id, type, whether it carries its media (imageUrl / fileData),
\* its content as the sequence of its parts, and pendingAnalysis.
SEED_NOTE ==
    [id |-> 0, type |-> "pdf", media |-> FALSE, content |-> <<"seed">>,
     pendingAnalysis |-> FALSE]

NoteIds == 1..MaxNotes
RunIds == 1..MaxRuns

\* getNotes on the store st: the notes under STORAGE_KEY, with the seed note
\* put in front (and written back) when it is missing; when the store
\* rejects, the catch block returns [] and the store is as it was.
getNotes(st, rejects) ==
    IF rejects
    THEN [data |-> <<>>, store |-> st]
    ELSE IF \E a \in DOMAIN st : st[a].id = SEED_NOTE.id
         THEN [data |-> st, store |-> st]
         ELSE [data |-> <<SEED_NOTE>> \o st, store |-> <<SEED_NOTE>> \o st]

\* updateNote: notes.map(n => n.id === id ? { ...n, ...updates } : n)
updateNoteKeepsPending(notes, id, content) ==
    [a \in DOMAIN notes |->
        IF notes[a].id = id
        THEN [notes[a] EXCEPT !.content = content]
        ELSE notes[a]]

updateNote(notes, id, content) ==
    [a \in DOMAIN notes |->
        IF notes[a].id = id
        THEN [notes[a] EXCEPT !.content = content, !.pendingAnalysis = FALSE]
        ELSE notes[a]]

IsPending(n) == n.pendingAnalysis

\* the branches of the loop body that prepare the request
EnrichableImage(note) == note.type = "image" /\ note.media

Enrichable(note) ==
    \/ note.type = "image" /\ note.media
    \/ note.type = "pdf" /\ note.media

\* response.text || "Analysis completed."
Analysis(text) == IF text = "" THEN "Analysis completed." ELSE text

\* `${updateContentPrefix}\n\n[Synced AI Analysis]: ${analysis}`
NewContent(note, text) ==
    (IF note.type = "image" THEN note.content ELSE <<"[PDF Source]">>)
        \o <<"[Synced AI Analysis]", Analysis(text)>>

\* An invocation of processPendingNotes: where it is suspended, what started
\* it, its pendingNotes, the index of the note in hand, the response text,
\* the list updateNote is about to write, and the outcome for each note so
\* far: "committed" (updateNote returned), "wiped" (updateNote returned
\* after its getNotes had been rejected), "rejected" (updateNote threw),
\* "remote" (generateContent threw), "skipped".
IdleRun ==
    [pc |-> "idle", by |-> "none", pendingNotes |-> <<>>, k |-> 0,
     text |-> "", updated |-> <<>>, rejected |-> FALSE, results |-> <<>>]

\* The loop goes on with the note after k, passing over the notes it skips.
RECURSIVE Advance(_)
Advance(run) ==
    LET k == run.k + 1 IN
    IF k > Len(run.pendingNotes)
    THEN [run EXCEPT !.pc = "done", !.k = k]
    ELSE IF Enrichable(run.pendingNotes[k])
         THEN [run EXCEPT !.pc = "generateContent", !.k = k]
         ELSE Advance([run EXCEPT !.k = k,
                                  !.results = Append(@, [out |-> "skipped",
                                                         text |-> ""])])

Outcome(run, out) ==
    [run EXCEPT !.results = Append(@, [out |-> out, text |-> run.text])]

InFlight(run) == run.pc \notin {"idle", "done"}

\* ------------------------------------- CameraAdd, PdfAdd, handleDeleteNote
OpIds == 1..MaxOps

\* An operation of the user: a capture flow ("camera", "pdf") with what was
\* entered (text, media), what it read of isOnline, whether its request
\* threw, and the note it built; or a deletion with its target.  Then the
\* store operation it calls: the list it is about to write, whether a read
\* was rejected on the way, and where it is suspended ("threw": the store
\* operation rejected and nothing caught it).
IdleOp ==
    [pc |-> "unused", kind |-> "none", text |-> FALSE, media |-> FALSE,
     online |-> FALSE, failed |-> FALSE, note |-> <<>>, target |-> 0,
     list |-> <<>>, rejected |-> FALSE]

NoOps == [o \in OpIds |-> IdleOp]

\* Date.now().toString(): the notes of the operations have ids of their own.
NewId(o) == MaxNotes + o

\* onAdd(newNote): handleAddNote calls saveNote.
Adding(op, note) == [op EXCEPT !.note = <<note>>, !.pc = "saveNote.getNotes"]

\* CameraAdd.handleAnalyzeAndSave up to its first await.
handleAnalyzeAndSave(op, id, online, key) ==
    IF ~op.text /\ ~op.media THEN op
    ELSE IF online /\ key
         THEN [op EXCEPT !.pc = "generateContent", !.online = online]
         ELSE Adding([op EXCEPT !.online = online],
                     IF op.media
                     THEN [id |-> id, type |-> "image", media |-> TRUE,
                           content |-> IF op.text THEN <<"[User Note]">>
                                       ELSE <<"Image saved (Offline)">>,
                           pendingAnalysis |-> TRUE]
                     ELSE [id |-> id, type |-> "text", media |-> FALSE,
                           content |-> <<"text">>,
                           pendingAnalysis |-> FALSE])

\* ... after `await ai.models.generateContent()`: the note with the
\* analysis, or the note of the catch block (no pendingAnalysis field).
cameraResponded(op, id, throws, text) ==
    Adding([op EXCEPT !.failed = throws],
           [id |-> id,
            type |-> IF op.media THEN "image" ELSE "text",
            media |-> op.media,
            content |->
               IF throws
               THEN IF op.text THEN <<"text">> ELSE <<"Content saved">>
               ELSE IF op.media
                    THEN (IF op.text THEN <<"[User Note]">> ELSE <<>>)
                           \o <<"[AI Vision Analysis]",
                                IF text = "" THEN "Image processed" ELSE text>>
                    ELSE IF text = "" THEN <<"text">> ELSE <<text>>,
            pendingAnalysis |-> FALSE])

\* PdfAdd.handleProcessAndSave up to its first await (fileData is set).
handleProcessAndSave(op, id, online, key) ==
    IF ~op.media THEN op
    ELSE IF online /\ key
         THEN [op EXCEPT !.pc = "generateContent", !.online = online]
         ELSE Adding([op EXCEPT !.online = online],
                     [id |-> id, type |-> "pdf", media |-> TRUE,
                      content |-> IF online THEN <<"[PDF] saved (no API Key)">>
                                  ELSE <<"[PDF] saved (Offline)">>,
                      pendingAnalysis |-> ~online])

\* ... after `await ai.models.generateContent()`.
pdfResponded(op, id, throws, text) ==
    Adding([op EXCEPT !.failed = throws],
           [id |-> id, type |-> "pdf", media |-> TRUE,
            content |->
               IF throws THEN <<"[PDF] - Analysis failed.">>
               ELSE <<"[PDF Source]",
                      IF text = "" THEN "PDF processed" ELSE text>>,
            pendingAnalysis |-> FALSE])

\* saveNote after its `await getNotes()`: [note, ...notes]
saveNote(op, notes, rejected) ==
    [op EXCEPT !.list = op.note \o notes, !.rejected = rejected,
               !.pc = "saveNote.set"]

\* deleteNote after its `await getNotes()`: notes.filter(n => n.id !== id)
deleteNote(op, notes, rejected) ==
    LET Kept(n) == n.id # op.target
    IN [op EXCEPT !.list = SelectSeq(notes, Kept), !.rejected = rejected,
                  !.pc = "deleteNote.set"]

\* saveNote or deleteNote after `await set(STORAGE_KEY, updated)`: it
\* returns to handleAddNote or handleDeleteNote, or it rejects, and neither
\* of them nor the component that called them catches.
written(op, rejects) ==
    [op EXCEPT !.pc = IF rejects THEN "threw" ELSE "done", !.list = <<>>]

\* ------------------------------------------------------- downsampleTo16k
\* A sample is a fraction num/den with den > 0.  The samples of a block lie
\* on a grid of twentieths: the quarters within [-1, 1] and beyond it on
\* both sides, and 0.9, which is no multiple of 1/32768.
Samples ==
    {[num |-> n, den |-> 20] : n \in {-30, -20, -15, -5, 0, 5, 10, 18, 20, 30}}

\* The sample rates an AudioContext can run at.
Rates == {8000, 16000, 24000, 44100, 48000}

\* Math.max(-1, Math.min(1, x))
Clamp(x) ==
    IF x.num > x.den THEN [num |-> 1, den |-> 1]
    ELSE IF x.num < -x.den THEN [num |-> -1, den |-> 1]
    ELSE x

\* The element an Int16Array stores for the number num/den: the fraction is
\* discarded (truncation towards zero), the integer wraps modulo 2^16.
ToInt16(num, den) ==
    LET t == IF num >= 0 THEN num \div den ELSE -((-num) \div den)
    IN ((t + 32768) % 65536) - 32768

\* res[i] = x * 32767
Scaled(x) == ToInt16(x.num * 32767, x.den)

\* Math.round(num/den) for num >= 0: floor(num/den + 1/2)
MathRound(num, den) == (2 * num + den) \div (2 * den)

\* Math.round(input.length / ratio) with ratio = sampleRate / 16000, and
\* input.length itself at the target rate.
newLengthFloor(length, sampleRate) ==
    IF sampleRate = 16000 THEN length
    ELSE (length * 16000) \div sampleRate

newLength(length, sampleRate) ==
    IF sampleRate = 16000 THEN length
    ELSE MathRound(length * 16000, sampleRate)

\* Math.floor(i * ratio)
Offset(i, sampleRate) == (i * sampleRate) \div 16000

\* sum += input[j] for j from a up to b - 1 (j counts from 0)
RECURSIVE SumOf(_, _, _)
SumOf(input, a, b) ==
    IF a >= b THEN 0 ELSE input[a + 1].num + SumOf(input, a + 1, b)

\* The value of result[i]: the average of the window of input that falls
\* on it, or input[offset] when the window is empty (undefined, hence NaN
\* and a stored 0, when offset is past the end).
Resampled(input, i, sampleRate) ==
    LET offset == Offset(i, sampleRate)
        nextOffset == Min(Offset(i + 1, sampleRate), Len(input))
        count == Max(nextOffset - offset, 0)
    IN IF count > 0
       THEN Scaled(Clamp([num |-> SumOf(input, offset, nextOffset),
                          den |-> input[offset + 1].den * count]))
       ELSE IF offset < Len(input) THEN Scaled(Clamp(input[offset + 1]))
            ELSE 0

downsampleTo16k(input, sampleRate) ==
    IF sampleRate = 16000
    THEN [i \in 1..Len(input) |-> Scaled(Clamp(input[i]))]
    ELSE [i \in 1..newLength(Len(input), sampleRate) |->
             Resampled(input, i - 1, sampleRate)]

\* pcmToAudioBuffer: channelData[i] = dataInt16[i] / 32768.0
Decoded(v) == [num |-> v, den |-> 32768]

\* No call of downsampleTo16k has been made.
NoCall == [input |-> <<>>, sampleRate |-> 16000, done |-> FALSE, out |-> <<>>]

\* The App with an empty store beside the seed note and no run.
AppIdle ==
    /\ store = <<SEED_NOTE>>
    /\ runs = [r \in RunIds |-> IdleRun]
    /\ isSyncing = FALSE
    /\ codec = NoCall
    /\ ops = NoOps

\* ----------------------------------------------------------------- actions
\* stopSession has run on the session of invocation i
StopRan(i) == sessions[i].closePending \/ sessions[i].closeCalls > 0

Active == isActive /\ status \in {"listening", "speaking"}

\* The history record of the task that runs now: its name (kept for a click
\* that starts, onclose, onerror and the offline event, "other" otherwise),
\* whether a session was active (isActive, status listening or speaking) when
\* it began, whether it is a callback of a session on which stopSession had
\* already run, and how many tasks in a row have called stopSession (counted
\* up to 2).
Op(name, active, late, stopped) ==
    [op |-> name, active |-> active, late |-> late,
     stops |-> IF stopped THEN Min(lastOp.stops + 1, 2) ELSE 0]

NextCall == Cardinality({i \in Ids : calls[i].pc # "unused"}) + 1

\* The state of a freshly mounted component.
Mounted(online, key) ==
    [isActive |-> FALSE, status |-> "idle", error |-> "null",
     isOnline |-> online, apiKey |-> key, now |-> 0,
     audioContextRef |-> Null, mediaStreamRef |-> Null,
     processorRef |-> Null, sourceNodeRef |-> Null,
     sessionPromiseRef |-> Null, activeSourcesRef |-> {},
     nextStartTimeRef |-> 0, isSessionOpenRef |-> FALSE,
     calls |-> [i \in Ids |-> [pc |-> "unused", isActive |-> FALSE]],
     contexts |-> [i \in Ids |-> [st |-> "none", closes |-> 0, base |-> 0]],
     streams |-> [i \in Ids |-> [st |-> "none", stops |-> 0]],
     sessions |-> [i \in Ids |-> [st |-> "none", opened |-> FALSE,
                                  closeCalls |-> 0, closePending |-> FALSE]],
     sourceNodes |-> [i \in Ids |-> [st |-> "none", disconnects |-> 0]],
     processors |-> [i \in Ids |-> [st |-> "none", disconnects |-> 0,
                                    onaudioprocess |-> FALSE]],
     chunks |-> <<>>, timers |-> 0, captured |-> 0,
     queued |-> [i \in Ids |-> <<>>], sent |-> [i \in Ids |-> <<>>],
     decoding |-> {}]

Init ==
    /\ \E online \in BOOLEAN, key \in BOOLEAN : Holds(Mounted(online, key))
    /\ lastOp = [op |-> "init", active |-> FALSE, late |-> FALSE, stops |-> 0]
    /\ AppIdle

\* The user clicks the button (disabled while offline).
Toggle(maxStarts) ==
    /\ isOnline
    /\ isActive \/ NextCall <= maxStarts
    /\ Apply(toggleSession(Cur, IF isActive THEN Null ELSE NextCall))
    /\ lastOp' = Op(IF isActive THEN "other" ELSE "start", FALSE, FALSE, isActive)

\* ctx.resume() settles; it can only be rejected on a context closed meanwhile.
ResumeSettles(i) ==
    /\ calls[i].pc = "resume"
    /\ \E ok \in BOOLEAN :
        /\ ok \/ contexts[i].st = "closed"
        /\ Apply(startSessionResumed(Cur, i, ok))
    /\ lastOp' = Op("other", FALSE, FALSE, FALSE)

\* getUserMedia() settles: the microphone is granted or denied.
GetUserMediaSettles(i) ==
    /\ calls[i].pc = "getUserMedia"
    /\ \E granted \in BOOLEAN :
        /\ Apply(OfflineEffect(startSessionStream(Cur, i, granted)))
        /\ lastOp' = Op("other", FALSE, FALSE,
                        granted /\ ~isOnline)

\* The socket of session i opens.
SessionOpens(i) ==
    /\ sessions[i].st = "connecting"
    /\ \E throws \in BOOLEAN :
        /\ throws => contexts[i].st = "closed"
        /\ Apply(ConnectFulfilled(
                   onopen([Cur EXCEPT !.sessions[i].st = "open",
                                      !.sessions[i].opened = TRUE], i, throws),
                   i))
    /\ lastOp' = Op("other", FALSE, StopRan(i), FALSE)

\* Session i delivers a server message: audio, the interrupted signal, or both.
SessionMessage(i, maxChunks, maxDur) ==
    /\ sessions[i].st \in {"open", "closing"}
    /\ \E audio \in BOOLEAN, interrupted \in BOOLEAN,
          byteLength \in Payloads(maxDur) :
        /\ audio \/ interrupted
        /\ audio => Len(chunks) < maxChunks
        /\ ~audio => byteLength = 2
        /\ Apply(onmessage(Cur, audio, Duration(byteLength),
                           Decodes(byteLength), interrupted))
    /\ lastOp' = Op("other", FALSE, FALSE, FALSE)

\* The socket of session i closes.
SessionCloses(i) ==
    /\ sessions[i].st \in {"connecting", "open", "closing", "errored"}
    /\ Apply(onclose([Cur EXCEPT !.sessions[i].st = "closed"], i))
    /\ lastOp' = Op("onclose", Active, StopRan(i), calls[i].isActive)

\* The socket of session i reports an error.
SessionErrors(i) ==
    /\ sessions[i].st \in {"connecting", "open", "closing"}
    /\ Apply(onerror([Cur EXCEPT !.sessions[i].st = "errored"]))
    /\ lastOp' = Op("onerror", Active, StopRan(i), TRUE)

\* window 'offline' / 'online': the prop changes and the effect runs.
GoOffline ==
    /\ isOnline
    /\ Apply(OfflineEffect([Cur EXCEPT !.isOnline = FALSE]))
    /\ lastOp' = Op("offline", Active, FALSE, isActive)

GoOnline ==
    /\ ~isOnline
    /\ Apply(OfflineEffect([Cur EXCEPT !.isOnline = TRUE]))
    /\ lastOp' = Op("other", FALSE, FALSE, FALSE)

\* The output clock advances.
Tick ==
    /\ now < MaxClock
    /\ Apply([Cur EXCEPT !.now = @ + 1])
    /\ lastOp' = Op("other", FALSE, FALSE, FALSE)

\* Chunk k has played to its end or was stopped: its "ended" event fires.
SourceEnded(k) ==
    /\ k \in DOMAIN chunks
    /\ ~chunks[k].ended
    /\ \/ chunks[k].stops > 0
       \/ CurrentTime(Cur, chunks[k].ctx) >= chunks[k].start + chunks[k].dur
    /\ Apply(onended(Cur, k))
    /\ lastOp' = Op("other", FALSE, FALSE, FALSE)

DebounceFires ==
    /\ timers > 0
    /\ Apply(debounceTimeout(Cur))
    /\ lastOp' = Op("other", FALSE, FALSE, FALSE)

\* ---------------------------------------------------------- specifications
\* The session lifecycle with at most maxStarts invocations of startSession.
Lifecycle(maxStarts) ==
    \/ Toggle(maxStarts)
    \/ \E i \in Ids : ResumeSettles(i)
    \/ \E i \in Ids : GetUserMediaSettles(i)
    \/ \E i \in Ids : SessionOpens(i)
    \/ \E i \in Ids : SessionMessage(i, MaxCtlChunks, MaxCtlDur)
    \/ \E i \in Ids : SessionCloses(i)
    \/ \E i \in Ids : SessionErrors(i)
    \/ GoOffline
    \/ GoOnline
    \/ \E k \in 1..MaxCtlChunks : SourceEnded(k)
    \/ DebounceFires

Next == Lifecycle(MaxStarts)

Spec == Init /\ [][Next]_vars

OverlapNext == Lifecycle(MaxOverlap)

OverlapSpec == Init /\ [][OverlapNext]_vars

\* Playback within one session: the state once the first startSession has
\* gone through (context resumed, microphone granted, socket open).
Opened ==
    ConnectFulfilled(
        onopen([startSessionStream(
                    startSessionResumed(startSession(Mounted(TRUE, TRUE), 1),
                                        1, TRUE),
                    1, TRUE)
                  EXCEPT !.sessions[1].st = "open",
                         !.sessions[1].opened = TRUE], 1, FALSE),
        1)

SchedInit ==
    /\ Holds(Opened)
    /\ lastOp = [op |-> "other", active |-> FALSE, late |-> FALSE, stops |-> 0]
    /\ AppIdle

\* The user clicks the button of the running session: stopSession.
StopClicked == isActive /\ Toggle(MaxStarts)

SchedNext ==
    \/ SessionMessage(1, MaxChunks, MaxDur)
    \/ Tick
    \/ \E k \in 1..MaxChunks : SourceEnded(k)
    \/ DebounceFires
    \/ StopClicked

SchedSpec == SchedInit /\ [][SchedNext]_vars

\* The capture pipeline.  Here the opening of the socket (onopen) and the
\* fulfilment of the promise of connect are two steps, so that frames can be
\* captured in between.
CaptureOpens(i) ==
    /\ sessions[i].st = "connecting"
    /\ \E throws \in BOOLEAN :
        /\ throws => contexts[i].st = "closed"
        /\ Apply(onopen([Cur EXCEPT !.sessions[i].st = "open"], i, throws))
    /\ lastOp' = Op("other", FALSE, StopRan(i), FALSE)

ConnectResolves(i) ==
    /\ sessions[i].st = "open"
    /\ ~sessions[i].opened
    /\ Apply(ConnectFulfilled(
               RunReactions([Cur EXCEPT !.sessions[i].opened = TRUE], i), i))
    /\ lastOp' = Op("resolve", FALSE, FALSE, FALSE)

\* The ScriptProcessorNode of invocation i delivers a frame: it does so while
\* its handler is set, it is connected and its context runs.
AudioProcess(i) ==
    /\ processors[i].onaudioprocess
    /\ processors[i].st = "connected"
    /\ contexts[i].st = "running"
    /\ captured < MaxFrames
    /\ Apply(onaudioprocess([Cur EXCEPT !.captured = @ + 1], captured + 1))
    /\ lastOp' = Op("other", FALSE, FALSE, FALSE)

CaptureNext ==
    \/ Toggle(MaxOverlap)
    \/ \E i \in Ids : ResumeSettles(i)
    \/ \E i \in Ids : GetUserMediaSettles(i)
    \/ \E i \in Ids : CaptureOpens(i)
    \/ \E i \in Ids : ConnectResolves(i)
    \/ \E i \in Ids : AudioProcess(i)

CaptureSpec == Init /\ [][CaptureNext]_vars

\* ------------------------------------------------- processPendingNotes
\* The texts a response of generateContent can carry.
Texts == {"T1", ""}

\* processPendingNotes after `await getNotes()`, up to its next await.
processLoadedAnyKey(run, currentNotes, key) ==
    LET pendingNotes == SelectSeq(currentNotes, IsPending) IN
    IF pendingNotes = <<>>
    THEN [run EXCEPT !.pc = "done"]
    ELSE Advance([run EXCEPT !.pendingNotes = pendingNotes, !.k = 0])

processLoaded(run, currentNotes, key) ==
    LET pendingNotes == SelectSeq(currentNotes, IsPending) IN
    IF pendingNotes = <<>> \/ ~key
    THEN [run EXCEPT !.pc = "done"]
    ELSE Advance([run EXCEPT !.pendingNotes = pendingNotes, !.k = 0])

\* ... after `await ai.models.generateContent()`: it threw (the catch block,
\* then the next note), or it returned text and updateNote is called.
processRespondedNoAwait(run, throws, text) ==
    IF throws
    THEN Advance(Outcome(run, "remote"))
    ELSE Advance(Outcome([run EXCEPT !.text = text], "committed"))

processResponded(run, throws, text) ==
    IF throws
    THEN Advance(Outcome(run, "remote"))
    ELSE [run EXCEPT !.text = text, !.pc = "updateNote.getNotes"]

\* updateNote after its `await getNotes()`: the list it is about to write.
processRead(run, notes, rejected) ==
    LET note == run.pendingNotes[run.k] IN
    [run EXCEPT !.updated = updateNote(notes, note.id,
                                       NewContent(note, run.text)),
                !.rejected = rejected,
                !.pc = "updateNote.set"]

\* ... after `await set(STORAGE_KEY, updated)`: it threw (the catch block),
\* or updateNote returned; then the next note.
processWritten(run, rejects) ==
    Advance(Outcome([run EXCEPT !.updated = <<>>, !.rejected = FALSE],
                    IF rejects THEN "rejected"
                    ELSE IF run.rejected THEN "wiped" ELSE "committed"))

\* setIsSyncing(false) once the loop is over
Syncing(run, before) == IF run.pc = "done" THEN FALSE ELSE before

NextRun == Cardinality({r \in RunIds : runs[r].pc # "idle"}) + 1

\* useEffect(() => { if (isOnline) processPendingNotes() }, [isOnline])
StartedRun(by) == [IdleRun EXCEPT !.pc = "getNotes", !.by = by]

\* window 'online': the effect of the App invokes processPendingNotes.
AppOnline ==
    /\ ~isOnline
    /\ NextRun <= MaxRuns
    /\ Assign(OfflineEffect([Cur EXCEPT !.isOnline = TRUE]))
    /\ runs' = [runs EXCEPT ![NextRun] = StartedRun("online")]
    /\ UNCHANGED <<store, isSyncing, codec, ops>>
    /\ lastOp' = Op("other", FALSE, FALSE, FALSE)

\* getNotes() of run r settles.
RunLoads(r) ==
    /\ runs[r].pc = "getNotes"
    /\ \E rejects \in BOOLEAN :
         LET g == getNotes(store, rejects)
             run == processLoaded(runs[r], g.data, apiKey)
         IN /\ store' = g.store
            /\ runs' = [runs EXCEPT ![r] = run]
            /\ isSyncing' = IF SelectSeq(g.data, IsPending) = <<>>
                            THEN isSyncing
                            ELSE Syncing(run, TRUE)
    /\ UNCHANGED <<progVars, lastOp, codec, ops>>

\* generateContent() of run r settles.
ModelResponds(r) ==
    /\ runs[r].pc = "generateContent"
    /\ \E throws \in BOOLEAN, text \in Texts :
         /\ throws => text = ""
         /\ LET run == processResponded(runs[r], throws, text)
            IN /\ runs' = [runs EXCEPT ![r] = run]
               /\ isSyncing' = Syncing(run, isSyncing)
    /\ UNCHANGED <<progVars, lastOp, store, codec, ops>>

\* getNotes() inside updateNote of run r settles.
UpdateReads(r) ==
    /\ runs[r].pc = "updateNote.getNotes"
    /\ \E rejects \in BOOLEAN :
         LET g == getNotes(store, rejects)
         IN /\ store' = g.store
            /\ runs' = [runs EXCEPT ![r] = processRead(runs[r], g.data, rejects)]
    /\ UNCHANGED <<progVars, lastOp, isSyncing, codec, ops>>

\* set() inside updateNote of run r settles.
UpdateWrites(r) ==
    /\ runs[r].pc = "updateNote.set"
    /\ \E rejects \in BOOLEAN :
         LET run == processWritten(runs[r], rejects)
         IN /\ store' = IF rejects THEN store ELSE runs[r].updated
            /\ runs' = [runs EXCEPT ![r] = run]
            /\ isSyncing' = Syncing(run, isSyncing)
    /\ UNCHANGED <<progVars, lastOp, codec, ops>>

\* The stores the App can be mounted on: the notes saved so far, newest
\* first, each an image or a pdf with its media, analysed or pending, and
\* the seed note.
InitialStores ==
    {[a \in NoteIds |-> [id |-> a, type |-> ty[a], media |-> TRUE,
                         content |-> <<"orig">>, pendingAnalysis |-> pd[a]]]
        \o <<SEED_NOTE>> :
       ty \in [NoteIds -> {"image", "pdf"}], pd \in [NoteIds -> BOOLEAN]}

\* On mount the effect runs once: processPendingNotes is invoked when online.
SyncInit ==
    /\ \E online \in BOOLEAN, key \in BOOLEAN :
         /\ Holds(Mounted(online, key))
         /\ runs = [r \in RunIds |->
                      IF r = 1 /\ online THEN StartedRun("mount") ELSE IdleRun]
    /\ store \in InitialStores
    /\ isSyncing = FALSE
    /\ codec = NoCall
    /\ ops = NoOps
    /\ lastOp = [op |-> "init", active |-> FALSE, late |-> FALSE, stops |-> 0]

SyncNext ==
    \/ AppOnline
    \/ GoOffline
    \/ \E r \in RunIds : RunLoads(r)
    \/ \E r \in RunIds : ModelResponds(r)
    \/ \E r \in RunIds : UpdateReads(r)
    \/ \E r \in RunIds : UpdateWrites(r)

SyncSpec == SyncInit /\ [][SyncNext]_vars

\* ------------------------------------------- runs one after the other
\* What a stored note can be by the Note type: of a type the loop knows,
\* with or without its payload (imageUrl, fileData), or of another type.
NoteKinds ==
    {[type |-> "image", media |-> TRUE], [type |-> "pdf", media |-> TRUE],
     [type |-> "image", media |-> FALSE], [type |-> "text", media |-> FALSE]}

\* The lists get(STORAGE_KEY) can return: notes of any kind, analysed or
\* pending, and the seed note.
AnyStores(n) ==
    {[a \in 1..n |-> [id |-> a, type |-> kd[a].type, media |-> kd[a].media,
                      content |-> <<"orig">>, pendingAnalysis |-> pd[a]]]
        \o <<SEED_NOTE>> :
       kd \in [1..n -> NoteKinds], pd \in [1..n -> BOOLEAN]}

\* The App is mounted on one of the stores in stores.
MountedOn(stores) ==
    /\ \E online \in BOOLEAN, key \in BOOLEAN :
         /\ Holds(Mounted(online, key))
         /\ runs = [r \in RunIds |->
                      IF r = 1 /\ online THEN StartedRun("mount") ELSE IdleRun]
    /\ store \in stores
    /\ isSyncing = FALSE
    /\ codec = NoCall
    /\ ops = NoOps
    /\ lastOp = [op |-> "init", active |-> FALSE, late |-> FALSE, stops |-> 0]

ReconcileInit == MountedOn(AnyStores(MaxRetryNotes))

\* window 'online' once the run before is over.
OnlineAgain ==
    /\ \A r \in RunIds : ~InFlight(runs[r])
    /\ AppOnline

ReconcileNext ==
    \/ OnlineAgain
    \/ GoOffline
    \/ \E r \in RunIds : RunLoads(r)
    \/ \E r \in RunIds : ModelResponds(r)
    \/ \E r \in RunIds : UpdateReads(r)
    \/ \E r \in RunIds : UpdateWrites(r)

ReconcileSpec == ReconcileInit /\ [][ReconcileNext]_vars

\* ------------------------------------------------------------ a single run
RunInit == MountedOn(AnyStores(MaxNotes))

\* window 'online' when the App was mounted offline.
FirstOnline ==
    /\ NextRun = 1
    /\ AppOnline

RunNext ==
    \/ FirstOnline
    \/ GoOffline
    \/ \E r \in RunIds : RunLoads(r)
    \/ \E r \in RunIds : ModelResponds(r)
    \/ \E r \in RunIds : UpdateReads(r)
    \/ \E r \in RunIds : UpdateWrites(r)

RunSpec == RunInit /\ [][RunNext]_vars

\* ---------------------------------------------- the user beside the runs
\* The user does one thing at a time: the operation before has returned
\* (or thrown), and there is room for another one.
NextOp == Cardinality({o \in OpIds : ops[o].pc # "unused"}) + 1

UserIdle ==
    /\ NextOp <= MaxOps
    /\ \A o \in OpIds : ops[o].pc \in {"unused", "done", "threw"}

\* The user enters a text, a photo or both in CameraAdd and clicks the
\* button.
CameraClick ==
    /\ UserIdle
    /\ \E text \in BOOLEAN, media \in BOOLEAN :
         /\ text \/ media
         /\ ops' = [ops EXCEPT ![NextOp] =
                       handleAnalyzeAndSave(
                           [IdleOp EXCEPT !.kind = "camera", !.text = text,
                                          !.media = media],
                           NewId(NextOp), isOnline, apiKey)]
    /\ UNCHANGED <<progVars, lastOp, appVars, codec>>

\* The user picks a file in PdfAdd and clicks the button.
PdfClick ==
    /\ UserIdle
    /\ ops' = [ops EXCEPT ![NextOp] =
                  handleProcessAndSave(
                      [IdleOp EXCEPT !.kind = "pdf", !.media = TRUE],
                      NewId(NextOp), isOnline, apiKey)]
    /\ UNCHANGED <<progVars, lastOp, appVars, codec>>

\* generateContent() of capture flow o settles.
CaptureResponds(o) ==
    /\ ops[o].pc = "generateContent"
    /\ \E throws \in BOOLEAN, text \in Texts :
         /\ throws => text = ""
         /\ ops' = [ops EXCEPT ![o] =
                       IF ops[o].kind = "camera"
                       THEN cameraResponded(ops[o], NewId(o), throws, text)
                       ELSE pdfResponded(ops[o], NewId(o), throws, text)]
    /\ UNCHANGED <<progVars, lastOp, appVars, codec>>

\* The user deletes a note of the store in RegistryView.
DeleteClick ==
    /\ UserIdle
    /\ \E a \in DOMAIN store :
         ops' = [ops EXCEPT ![NextOp] =
                   [IdleOp EXCEPT !.kind = "delete", !.target = store[a].id,
                                  !.pc = "deleteNote.getNotes"]]
    /\ UNCHANGED <<progVars, lastOp, appVars, codec>>

\* getNotes() inside saveNote or deleteNote of operation o settles.
OpReads(o) ==
    /\ ops[o].pc \in {"saveNote.getNotes", "deleteNote.getNotes"}
    /\ \E rejects \in BOOLEAN :
         LET g == getNotes(store, rejects)
         IN /\ store' = g.store
            /\ ops' = [ops EXCEPT ![o] =
                          IF ops[o].pc = "saveNote.getNotes"
                          THEN saveNote(ops[o], g.data, rejects)
                          ELSE deleteNote(ops[o], g.data, rejects)]
    /\ UNCHANGED <<progVars, lastOp, runs, isSyncing, codec>>

\* set() inside saveNote or deleteNote of operation o settles.
OpWrites(o) ==
    /\ ops[o].pc \in {"saveNote.set", "deleteNote.set"}
    /\ \E rejects \in BOOLEAN :
         /\ store' = IF rejects THEN store ELSE ops[o].list
         /\ ops' = [ops EXCEPT ![o] = written(ops[o], rejects)]
    /\ UNCHANGED <<progVars, lastOp, runs, isSyncing, codec>>

\* The App is mounted on the store that holds the seed note only.
NotesInit == MountedOn({<<SEED_NOTE>>})

NotesNext ==
    \/ OnlineAgain
    \/ GoOffline
    \/ CameraClick
    \/ PdfClick
    \/ DeleteClick
    \/ \E o \in OpIds : CaptureResponds(o)
    \/ \E o \in OpIds : OpReads(o)
    \/ \E o \in OpIds : OpWrites(o)
    \/ \E r \in RunIds : RunLoads(r)
    \/ \E r \in RunIds : ModelResponds(r)
    \/ \E r \in RunIds : UpdateReads(r)
    \/ \E r \in RunIds : UpdateWrites(r)

NotesSpec == NotesInit /\ [][NotesNext]_vars

\* Up to MaxAdds capture flows beside the first run of processPendingNotes.
AddNext ==
    \/ FirstOnline
    \/ GoOffline
    \/ NextOp <= MaxAdds /\ CameraClick
    \/ NextOp <= MaxAdds /\ PdfClick
    \/ \E o \in OpIds : CaptureResponds(o)
    \/ \E o \in OpIds : OpReads(o)
    \/ \E o \in OpIds : OpWrites(o)
    \/ \E r \in RunIds : RunLoads(r)
    \/ \E r \in RunIds : ModelResponds(r)
    \/ \E r \in RunIds : UpdateReads(r)
    \/ \E r \in RunIds : UpdateWrites(r)

AddSpec == NotesInit /\ [][AddNext]_vars

\* -------------------------------------------- one call of downsampleTo16k
\* The blocks of up to MaxLen samples.
Blocks == UNION {[1..n -> Samples] : n \in 0..MaxLen}

\* onaudioprocess is about to call downsampleTo16k(inputData, ctx.sampleRate).
ResampleInit ==
    /\ \E online \in BOOLEAN, key \in BOOLEAN : Holds(Mounted(online, key))
    /\ lastOp = [op |-> "init", active |-> FALSE, late |-> FALSE, stops |-> 0]
    /\ store = <<SEED_NOTE>>
    /\ runs = [r \in RunIds |-> IdleRun]
    /\ isSyncing = FALSE
    /\ \E input \in Blocks, sampleRate \in Rates :
         codec = [input |-> input, sampleRate |-> sampleRate,
                  done |-> FALSE, out |-> <<>>]
    /\ ops = NoOps

\* The call returns.
Encode ==
    /\ ~codec.done
    /\ codec' = [codec EXCEPT
                   !.done = TRUE,
                   !.out = downsampleTo16k(codec.input, codec.sampleRate)]
    /\ UNCHANGED <<progVars, lastOp, appVars, ops>>

ResampleNext == Encode

ResampleSpec == ResampleInit /\ [][ResampleNext]_vars

\* ------------------------- the variant that awaits decode and microphone
\* startSession of the variant: no await before ai.live.connect; the
\* microphone is acquired by onopen.
startSessionConnects(s, i) ==
    LET c == [s EXCEPT !.calls[i].isActive = s.isActive] IN
    IF ~s.isOnline
    THEN [c EXCEPT !.error = "Internet required", !.calls[i].pc = "returned"]
    ELSE LET s1 == [c EXCEPT !.error = "null", !.status = "connecting"] IN
         IF ~s.apiKey
         THEN StartCatch(s1, i, "API Key missing")
         ELSE [s1 EXCEPT !.contexts[i] =
                             [st |-> "running", closes |-> 0, base |-> s.now],
                         !.audioContextRef = i,
                         !.sessions[i] = [st |-> "connecting", opened |-> FALSE,
                                          closeCalls |-> 0, closePending |-> FALSE],
                         !.sessionPromiseRef = i,
                         !.isActive = TRUE,
                         !.calls[i].pc = "returned"]

\* onopen of the variant up to `await startAudioInput(ctx)`, which waits for
\* getUserMedia (the context, made in the click, is running: no resume).
onopenAcquires(s, i) ==
    [s EXCEPT !.isSessionOpenRef = TRUE, !.status = "listening",
              !.calls[i].pc = "startAudioInput"]

\* getUserMedia settles and startAudioInput goes on: mediaStreamRef, then the
\* capture chain on ctx (which may refuse on a context closed meanwhile);
\* a rejection or a throw lands in the catch block of onopen.
startAudioInput(s, i, granted, throws) ==
    LET c == [s EXCEPT !.calls[i].pc = "returned"]
        failed(x) == stopSession([x EXCEPT !.error = "Microphone access failed"])
    IN IF ~granted
       THEN failed(c)
       ELSE LET s1 == [c EXCEPT !.streams[i] = [st |-> "live", stops |-> 0],
                                !.mediaStreamRef = i]
            IN IF throws THEN failed(s1) ELSE setupAudioPipeline(s1, i, FALSE)

\* playAudioChunk of the variant up to `await ctx.decodeAudioData(..)`: the
\* decode of message n, of a buffer of dur frames, is pending on ctx.
playAudioChunkAwaits(s, n, dur) ==
    IF s.audioContextRef = Null
    THEN s
    ELSE [s EXCEPT !.status = "speaking",
                   !.decoding = @ \cup {[n |-> n, ctx |-> s.audioContextRef,
                                         dur |-> dur]}]

\* ... after the await: the decode d was rejected (the catch block logs), or
\* the buffer is scheduled on the context the call took before the await.
playAudioChunkDecoded(s, d, ok) ==
    LET s1 == [s EXCEPT !.decoding = @ \ {d}]
        currentTime == CurrentTime(s, d.ctx)
        startTime == Max(currentTime, s.nextStartTimeRef)
        k == Len(s.chunks) + 1
    IN IF ~ok
       THEN s1
       ELSE [s1 EXCEPT !.chunks = Append(@, [ctx |-> d.ctx,
                                             start |-> startTime,
                                             dur |-> d.dur,
                                             enq |-> currentTime,
                                             stops |-> 0,
                                             ended |-> FALSE,
                                             n |-> d.n]),
                       !.nextStartTimeRef = startTime + d.dur,
                       !.activeSourcesRef = @ \cup {k}]

\* onmessage of the variant: playAudioChunk is called and not awaited.
onmessageAwaits(s, audio, n, dur, interrupted) ==
    LET s1 == IF audio THEN playAudioChunkAwaits(s, n, dur) ELSE s
    IN IF interrupted
       THEN [StopPlaying(s1) EXCEPT !.status = "listening"]
       ELSE s1

\* Audio messages are numbered in the order of their arrival: the number of
\* the last one whose decode is pending or has been scheduled.
Received ==
    LET ns == {d.n : d \in decoding} \cup {chunks[k].n : k \in DOMAIN chunks}
    IN IF ns = {} THEN 0 ELSE CHOOSE n \in ns : \A m \in ns : m <= n

VariantToggle ==
    /\ isOnline
    /\ isActive \/ NextCall <= MaxStarts
    /\ Apply(IF isActive THEN stopSession(Cur)
             ELSE startSessionConnects(Cur, NextCall))
    /\ lastOp' = Op(IF isActive THEN "other" ELSE "start", FALSE, FALSE, isActive)

VariantOpens(i) ==
    /\ sessions[i].st = "connecting"
    /\ Apply(ConnectFulfilled(
               onopenAcquires([Cur EXCEPT !.sessions[i].st = "open",
                                          !.sessions[i].opened = TRUE], i), i))
    /\ lastOp' = Op("other", FALSE, StopRan(i), FALSE)

MicrophoneSettles(i) ==
    /\ calls[i].pc = "startAudioInput"
    /\ \E granted \in BOOLEAN, throws \in BOOLEAN :
        /\ throws => granted /\ contexts[i].st = "closed"
        /\ Apply(startAudioInput(Cur, i, granted, throws))
        /\ lastOp' = Op("other", FALSE, StopRan(i), ~granted \/ throws)

VariantMessage(i) ==
    /\ sessions[i].st \in {"open", "closing"}
    /\ \E audio \in BOOLEAN, interrupted \in BOOLEAN, dur \in 1..MaxCtlDur :
        /\ audio \/ interrupted
        /\ audio => Received < MaxChunks
        /\ Apply(onmessageAwaits(Cur, audio, Received + 1, dur, interrupted))
    /\ lastOp' = Op("other", FALSE, FALSE, FALSE)

\* A pending decode settles; decodes run off the main thread and settle in
\* any order.
DecodeSettles ==
    \E d \in decoding, ok \in BOOLEAN :
        /\ Apply(playAudioChunkDecoded(Cur, d, ok))
        /\ lastOp' = Op("other", FALSE, FALSE, FALSE)

VariantNext ==
    \/ VariantToggle
    \/ \E i \in Ids : VariantOpens(i)
    \/ \E i \in Ids : MicrophoneSettles(i)
    \/ \E i \in Ids : VariantMessage(i)
    \/ DecodeSettles
    \/ Tick

VariantSpec == Init /\ [][VariantNext]_vars

\* ------------------------------------------------------------ the unmount
\* The App leaves the voice view while the component is mounted: the cleanup
\* of the last effect runs cleanupAudio().  The state of an unmounted
\* component is no longer set, and nothing is modelled after the unmount.
Unmount ==
    /\ lastOp.op # "unmount"
    /\ Apply(cleanupAudio(Cur))
    /\ lastOp' = Op("unmount", Active, FALSE, FALSE)

UnmountNext ==
    \/ lastOp.op # "unmount" /\ SchedNext
    \/ Unmount

UnmountSpec == SchedInit /\ [][UnmountNext]_vars

\* ------------------------------------------------- what the claims speak of
\* How often s has released each resource.
SessionReleases(s, i) ==
    s.sessions[i].closeCalls + (IF s.sessions[i].closePending THEN 1 ELSE 0)

Ledger(s) ==
    [context |-> [i \in Ids |-> s.contexts[i].closes],
     stream |-> [i \in Ids |-> s.streams[i].stops],
     processor |-> [i \in Ids |-> s.processors[i].disconnects],
     sourceNode |-> [i \in Ids |-> s.sourceNodes[i].disconnects],
     session |-> [i \in Ids |-> SessionReleases(s, i)],
     source |-> [k \in DOMAIN s.chunks |-> s.chunks[k].stops]]

\* No resource has been released more than once in s.
NoDoubleRelease(s) ==
    /\ \A i \in Ids :
        /\ s.contexts[i].closes <= 1
        /\ s.streams[i].stops <= 1
        /\ s.processors[i].disconnects <= 1
        /\ s.sourceNodes[i].disconnects <= 1
        /\ SessionReleases(s, i) <= 1
    /\ \A k \in DOMAIN s.chunks : s.chunks[k].stops <= 1

\* From s to t, every resource a ref of s holds is released once, and no
\* other resource is released.
HeldReleasedOnce(s, t) ==
    /\ \A i \in Ids :
        /\ t.contexts[i].closes =
             s.contexts[i].closes + (IF s.audioContextRef = i THEN 1 ELSE 0)
        /\ t.streams[i].stops =
             s.streams[i].stops + (IF s.mediaStreamRef = i THEN 1 ELSE 0)
        /\ t.processors[i].disconnects =
             s.processors[i].disconnects + (IF s.processorRef = i THEN 1 ELSE 0)
        /\ t.sourceNodes[i].disconnects =
             s.sourceNodes[i].disconnects + (IF s.sourceNodeRef = i THEN 1 ELSE 0)
        /\ SessionReleases(t, i) =
             SessionReleases(s, i) + (IF s.sessionPromiseRef = i THEN 1 ELSE 0)
        /\ s.audioContextRef = i => t.contexts[i].st = "closed"
        /\ s.mediaStreamRef = i => t.streams[i].st = "stopped"
        /\ s.processorRef = i =>
             t.processors[i].st = "disconnected" /\ ~t.processors[i].onaudioprocess
        /\ s.sourceNodeRef = i => t.sourceNodes[i].st = "disconnected"
    /\ DOMAIN t.chunks = DOMAIN s.chunks
    /\ \A k \in DOMAIN s.chunks :
        t.chunks[k].stops =
            s.chunks[k].stops + (IF k \in s.activeSourcesRef THEN 1 ELSE 0)

\* t is torn down: idle, inactive, and holding nothing.
TornDown(t) ==
    /\ t.status = "idle"
    /\ ~t.isActive
    /\ ~t.isSessionOpenRef
    /\ t.audioContextRef = Null
    /\ t.mediaStreamRef = Null
    /\ t.processorRef = Null
    /\ t.sourceNodeRef = Null
    /\ t.sessionPromiseRef = Null
    /\ t.activeSourcesRef = {}

\* Some invocation of startSession begins in this step.
StartBegins == \E i \in Ids : calls[i].pc = "unused" /\ calls'[i].pc # "unused"

\* Some session is connected in this step.
ConnectIssued == \E i \in Ids : sessions[i].st = "none" /\ sessions'[i].st # "none"

\* Every resource released before s is released no further in t.
NoSecondRelease(s, t) ==
    /\ \A i \in Ids :
        /\ s.contexts[i].closes >= 1 => t.contexts[i].closes = s.contexts[i].closes
        /\ s.streams[i].stops >= 1 => t.streams[i].stops = s.streams[i].stops
        /\ s.processors[i].disconnects >= 1 =>
             t.processors[i].disconnects = s.processors[i].disconnects
        /\ s.sourceNodes[i].disconnects >= 1 =>
             t.sourceNodes[i].disconnects = s.sourceNodes[i].disconnects
        /\ SessionReleases(s, i) >= 1 =>
             SessionReleases(t, i) = SessionReleases(s, i)
    /\ \A k \in DOMAIN s.chunks :
        s.chunks[k].stops >= 1 => t.chunks[k].stops = s.chunks[k].stops

\* ------------------------------------------------------------------ claims
\* C1: from every reachable state, stopSession called twice in a row: the
\* first call releases each resource the refs hold exactly once and leaves
\* the controller torn down, the second call changes nothing (it releases
\* nothing again), and a state reached by a task that called stopSession is
\* left unchanged by a further call.
C1_StopTwice ==
    LET s1 == stopSession(Cur)
        s2 == stopSession(s1)
    IN /\ s2 = s1
       /\ TornDown(s1)
       /\ HeldReleasedOnce(Cur, s2)
       /\ NoDoubleRelease(s2)
       /\ lastOp.stops >= 1 => stopSession(Cur) = Cur

\* Two tasks in a row have called stopSession, the first on an open session.
C1_Witness ==
    /\ lastOp.stops = 2
    /\ \E i \in Ids : /\ contexts[i].closes = 1
                      /\ streams[i].stops = 1
                      /\ processors[i].disconnects = 1
                      /\ sessions[i].closeCalls = 1

\* C2 (as claimed): when the current session delivers onclose while the
\* controller is active, the controller is torn down: every resource the
\* refs hold is released, status is idle and isActive false.
C2_OnCloseTearsDown ==
    [][\A i \in Ids :
         (SessionCloses(i) /\ Active /\ sessionPromiseRef = i)
            => (TornDown(Cur') /\ HeldReleasedOnce(Cur, Cur'))]_vars

\* C3: onerror delivered while the controller is active tears it down (the
\* releases of stopSession), leaves status idle and the error message
\* "Connection error" set, and starts or connects nothing; an invocation of
\* startSession begins only with a click.
C3_ErrorTearsDown ==
    [][/\ \A i \in Ids :
            (SessionErrors(i) /\ Active)
               => /\ TornDown(Cur')
                  /\ HeldReleasedOnce(Cur, Cur')
                  /\ error' = "Connection error"
                  /\ ~StartBegins
                  /\ ~ConnectIssued
       /\ StartBegins => lastOp'.op = "start"]_vars

C3_Witness ==
    /\ lastOp.op = "onerror"
    /\ lastOp.active
    /\ error = "Connection error"
    /\ status = "idle"
    /\ \E i \in Ids : sessions[i].st = "errored" /\ sessions[i].closeCalls = 1

\* C4: an onerror or onclose of a session on which stopSession has already
\* run releases no resource a second time and does not move status away
\* from idle.
C4_LateCallback ==
    [][\A i \in Ids :
         ((SessionErrors(i) \/ SessionCloses(i)) /\ StopRan(i))
            => /\ NoSecondRelease(Cur, Cur')
               /\ NoDoubleRelease(Cur')
               /\ status = "idle" => status' = "idle"]_vars

C4_Witness ==
    /\ lastOp.op = "onerror"
    /\ lastOp.late
    /\ status = "idle"
    /\ \E i \in Ids : sessions[i].st = "errored" /\ sessions[i].closeCalls = 1

\* C5 (as claimed): whatever the clicks, at most one microphone stream is
\* acquired and not yet stopped, and at most one remote session is connected
\* with no close issued or pending on it.
C5_SingleSession ==
    /\ Cardinality({i \in Ids : streams[i].st = "live"}) <= 1
    /\ Cardinality({i \in Ids : /\ sessions[i].st \in {"connecting", "open"}
                                /\ SessionReleases(Cur, i) = 0}) <= 1

\* C6 (as claimed): the onopen of a session on which stopSession has already
\* run is not acted on: the session-open flag, the status and the capture
\* nodes with their refs stay as they are.
C6_StaleOpenIgnored ==
    [][\A i \in Ids :
         (SessionOpens(i) /\ StopRan(i))
            => /\ isSessionOpenRef' = isSessionOpenRef
               /\ status' = status
               /\ sourceNodes' = sourceNodes
               /\ processors' = processors
               /\ sourceNodeRef' = sourceNodeRef
               /\ processorRef' = processorRef]_vars

\* C7: going offline while a session is active (status listening or speaking)
\* forces a stop: every resource the refs hold is released once, status is
\* idle, isActive false and the error "Connection lost" set; a set error is
\* cleared only by a click that starts a session.
C7_OfflineForcesStop ==
    [][/\ (GoOffline /\ Active)
            => /\ TornDown(Cur')
               /\ HeldReleasedOnce(Cur, Cur')
               /\ error' = "Connection lost"
       /\ (error # "null" /\ error' = "null") => lastOp'.op = "start"]_vars

C7_Witness ==
    /\ lastOp.op = "offline"
    /\ lastOp.active
    /\ ~isOnline
    /\ error = "Connection lost"
    /\ \E i \in Ids : contexts[i].closes = 1 /\ streams[i].stops = 1

\* C8: startSession invoked from the idle controller while offline or with
\* no API key has returned with an error message set and has acquired
\* nothing: no audio context, no microphone stream, no remote session, the
\* refs as before, isActive false and status idle.
C8_StartRefused ==
    \A i \in Ids :
        (/\ calls[i].pc = "unused"
         /\ ~isActive
         /\ status = "idle"
         /\ ~isOnline \/ ~apiKey)
           => LET t == startSession(Cur, i)
              IN /\ t.calls[i].pc = "returned"
                 /\ t.error \in {"Internet required", "API Key missing"}
                 /\ t.contexts = contexts
                 /\ t.streams = streams
                 /\ t.sessions = sessions
                 /\ t.audioContextRef = audioContextRef
                 /\ t.mediaStreamRef = mediaStreamRef
                 /\ t.sessionPromiseRef = sessionPromiseRef
                 /\ ~t.isActive
                 /\ t.status = "idle"

\* A click has started a session with no API key configured.
C8_Witness ==
    /\ lastOp.op = "start"
    /\ ~apiKey
    /\ error = "API Key missing"
    /\ status = "idle"
    /\ ~isActive
    /\ \E i \in Ids : calls[i].pc = "returned" /\ contexts[i].st = "none"

\* C9 (as claimed): when getUserMedia is denied the start is aborted with an
\* error message, no session is connected, status is idle, nothing is
\* started again, and the audio context created by that start is no longer
\* running nor held in its ref.
C9_DeniedHoldsNothing ==
    [][\A i \in Ids :
         (/\ calls[i].pc = "getUserMedia"
          /\ GetUserMediaSettles(i)
          /\ streams'[i].st = "none")
            => /\ error' # "null"
               /\ sessions'[i].st = "none"
               /\ status' = "idle"
               /\ ~StartBegins
               /\ contexts'[i].st # "running"
               /\ audioContextRef' # i]_vars

\* C10: of the chunks scheduled on one audio context, each starts no earlier
\* than the context's clock when it was enqueued, and a chunk enqueued after
\* a chunk that no flush has stopped starts no earlier than that chunk, and
\* no earlier than that chunk's end.
C10_ScheduleOrdered ==
    /\ \A k \in DOMAIN chunks : chunks[k].start >= chunks[k].enq
    /\ \A j \in DOMAIN chunks, k \in DOMAIN chunks :
         (j < k /\ chunks[j].ctx = chunks[k].ctx /\ chunks[j].stops = 0)
            => /\ chunks[k].start >= chunks[j].start
               /\ chunks[k].start >= chunks[j].start + chunks[j].dur

\* Two chunks in a burst: the second waits for the end of the first.
C10_Witness ==
    /\ Len(chunks) >= 2
    /\ chunks[1].stops = 0
    /\ chunks[2].stops = 0
    /\ chunks[2].start > chunks[2].enq
    /\ chunks[2].start = chunks[1].start + chunks[1].dur

\* The step delivers, to the session of SchedSpec, a message that carries the
\* interrupted signal.
InterruptedDelivered ==
    /\ SessionMessage(1, MaxChunks, MaxDur)
    /\ \E audio \in BOOLEAN, byteLength \in Payloads(MaxDur) :
         Cur' = onmessage(Cur, audio, Duration(byteLength),
                          Decodes(byteLength), TRUE)

\* No chunk is scheduled in t.
NoneScheduled(t) ==
    /\ t.activeSourcesRef = {}
    /\ \A k \in DOMAIN t.chunks : t.chunks[k].stops >= 1 \/ t.chunks[k].ended

C12_InterruptedListens ==
    [][(InterruptedDelivered /\ isSessionOpenRef)
          => /\ status' = "listening"
             /\ NoneScheduled(Cur')]_vars

\* A chunk queued behind another was flushed before it started.
C12_Witness ==
    /\ isSessionOpenRef
    /\ status = "listening"
    /\ activeSourcesRef = {}
    /\ \E k \in DOMAIN chunks :
         /\ chunks[k].stops = 1
         /\ ~chunks[k].ended
         /\ chunks[k].start > chunks[k].enq

\* The edges the status may follow.
StatusEdges ==
    {<<"idle", "connecting">>, <<"connecting", "listening">>,
     <<"listening", "speaking">>, <<"speaking", "listening">>}
        \cup {<<a, "idle">> : a \in {"idle", "connecting", "listening", "speaking"}}

\* C13 (as claimed): every task that changes status moves it along one of
\* idle->connecting, connecting->listening, listening->speaking,
\* speaking->listening, or from any status to idle.
C13_StatusFollowsEdges ==
    [][status' # status => <<status, status'>> \in StatusEdges]_vars

\* C14 (as claimed): in the open session, status speaking with no chunk
\* scheduled is on its way back to listening: a debounce timer is pending
\* whose firing sets status listening (nothing else does, short of a further
\* message).
C14_SpeakingReturns ==
    (isSessionOpenRef /\ status = "speaking" /\ activeSourcesRef = {})
        => timers > 0

\* C15: an audio message whose payload has an odd byte length is dropped:
\* the session and its open flag stay as they are, nothing is released, the
\* refs, the scheduled chunks and the next-start cursor are unchanged, and a
\* well-formed chunk that follows is scheduled as it would have been
\* without the dropped one.
C15_UndecodableDropped ==
    audioContextRef # Null =>
      \A byteLength \in Payloads(MaxDur) :
        ~Decodes(byteLength) =>
          LET t == onmessage(Cur, TRUE, Duration(byteLength),
                             Decodes(byteLength), FALSE)
          IN /\ t.isSessionOpenRef = isSessionOpenRef
             /\ t.sessions = sessions
             /\ t.sessionPromiseRef = sessionPromiseRef
             /\ t.isActive = isActive
             /\ Ledger(t) = Ledger(Cur)
             /\ t.audioContextRef = audioContextRef
             /\ t.mediaStreamRef = mediaStreamRef
             /\ t.processorRef = processorRef
             /\ t.sourceNodeRef = sourceNodeRef
             /\ t.chunks = chunks
             /\ t.activeSourcesRef = activeSourcesRef
             /\ t.nextStartTimeRef = nextStartTimeRef
             /\ \A n \in Payloads(MaxDur) :
                  Decodes(n) =>
                    LET u == playAudioChunk(t, Duration(n), Decodes(n))
                        v == playAudioChunk(Cur, Duration(n), Decodes(n))
                    IN /\ u.chunks = v.chunks
                       /\ Len(u.chunks) = Len(chunks) + 1
                       /\ u.activeSourcesRef = v.activeSourcesRef
                       /\ u.nextStartTimeRef = v.nextStartTimeRef

\* An undecodable chunk was dropped in the open session while a chunk is
\* scheduled.
C15_Witness ==
    /\ error = "Audio decode failed"
    /\ isSessionOpenRef
    /\ audioContextRef # Null
    /\ \E k \in activeSourcesRef : chunks[k].stops = 0 /\ ~chunks[k].ended

\* The frames of q are in the order of their capture, none twice.
Increasing(q) == \A a \in DOMAIN q, b \in DOMAIN q : a < b => q[a] < q[b]

FramesOf(q) == {q[a] : a \in DOMAIN q}

\* C16: the frames passed to sendRealtimeInput of a session, followed by
\* those still waiting for its promise, are in the order in which
\* onaudioprocess produced them, and no frame is passed twice, to the same
\* or to two sessions.
C16_FramesInOrder ==
    /\ \A j \in Ids : Increasing(sent[j] \o queued[j])
    /\ \A j \in Ids, k \in Ids :
         j # k => FramesOf(sent[j] \o queued[j])
                    \cap FramesOf(sent[k] \o queued[k]) = {}

\* The promise has just been fulfilled and the frames captured before that
\* have been sent.
C16_Witness ==
    /\ lastOp.op = "resolve"
    /\ \E j \in Ids : Len(sent[j]) >= 2 /\ queued[j] = <<>> /\ sessions[j].opened

\* C17 (as claimed): a frame delivered while the session is not open is
\* neither queued nor sent; once stopSession has torn the controller down no
\* frame is delivered to onaudioprocess; and no frame is passed to
\* sendRealtimeInput of a session on which close() was called.
C17_NoCaptureWhenStopped ==
    [][/\ \A i \in Ids :
            AudioProcess(i)
               => /\ ~isSessionOpenRef => (queued' = queued /\ sent' = sent)
                  /\ ~TornDown(Cur)
       /\ \A j \in Ids :
            sessions[j].closeCalls > 0 => sent'[j] = sent[j]]_vars

\* The note with the id of n as the store holds it, if it holds one.
StoredIn(st, n) == {st[a] : a \in {b \in DOMAIN st : st[b].id = n.id}}

Stored(n) == StoredIn(store, n)

\* Run r is over and was the only one.
RanAlone(r) ==
    /\ runs[r].pc = "done"
    /\ \A q \in RunIds \ {r} : runs[q].pc = "idle"

\* C18 (as claimed): when a run of processPendingNotes that ran alone is
\* over, it has gone through every pending note whatever failed on the way;
\* each note whose update returned is stored with pendingAnalysis false and
\* the rewritten content, and each note whose request or update failed is
\* stored as it was, still pending.
C18_FailureKeepsRunGoing ==
    \A r \in RunIds :
      RanAlone(r) =>
        /\ Len(runs[r].results) = Len(runs[r].pendingNotes)
        /\ \A k \in DOMAIN runs[r].results :
             LET n == runs[r].pendingNotes[k]
                 res == runs[r].results[k]
             IN /\ res.out = "committed" =>
                     Stored(n) = {[n EXCEPT !.content = NewContent(n, res.text),
                                            !.pendingAnalysis = FALSE]}
                /\ res.out \in {"remote", "rejected"} => Stored(n) = {n}
                /\ res.out = "wiped" =>
                     Stored(n) \in {{n},
                                    {[n EXCEPT !.content = NewContent(n, res.text),
                                               !.pendingAnalysis = FALSE]}}

\* C20 (as claimed): at most one run of processPendingNotes is in flight, so
\* no two runs have the same note in hand at once.
C20_OneRunInFlight ==
    /\ Cardinality({r \in RunIds : InFlight(runs[r])}) <= 1
    /\ \A r \in RunIds, q \in RunIds :
         (/\ r # q
          /\ runs[r].pc \in {"generateContent", "updateNote.getNotes",
                             "updateNote.set"}
          /\ runs[q].pc \in {"generateContent", "updateNote.getNotes",
                             "updateNote.set"})
            => runs[r].pendingNotes[runs[r].k].id
                  # runs[q].pendingNotes[runs[q].k].id

\* Note n as updateNote leaves it when the enrichment returned text.
Rewritten(n, text) ==
    [n EXCEPT !.content = NewContent(n, text), !.pendingAnalysis = FALSE]

\* content contains text (the empty text is contained in any content)
Contains(content, text) ==
    text = "" \/ \E a \in DOMAIN content : content[a] = text

\* Run r is over in the next state and was not before.
Finishes(r) == runs[r].pc # "done" /\ runs'[r].pc = "done"

\* C19 (as claimed): a step from offline to online invokes
\* processPendingNotes, and when a run is over, every pending image or pdf
\* note for which generateContent returned text T and updateNote returned is
\* stored with a content that contains T and with pendingAnalysis false.
C19_OnlineEnriches ==
    [][/\ (~isOnline /\ isOnline') =>
            \E r \in RunIds : runs[r].pc = "idle" /\ runs'[r].pc = "getNotes"
       /\ \A r \in RunIds :
            Finishes(r) =>
              \A k \in DOMAIN runs'[r].results :
                LET n == runs'[r].pendingNotes[k]
                    res == runs'[r].results[k]
                IN res.out \in {"committed", "wiped"} =>
                     /\ StoredIn(store', n) # {}
                     /\ \A m \in StoredIn(store', n) :
                          /\ Contains(m.content, res.text)
                          /\ ~m.pendingAnalysis]_vars

\* round(num/den) for num >= 0 and den > 0: the integer k with
\* k - 1/2 <= num/den < k + 1/2.
RoundHalfUp(num, den) ==
    CHOOSE k \in 0..((num \div den) + 1) :
        (2 * k - 1) * den <= 2 * num /\ 2 * num < (2 * k + 1) * den

\* C29: a call of downsampleTo16k on L samples at rate R returns
\* round(L * 16000 / R) samples: L samples at 16000 Hz, and 1365 samples
\* for a block of 4096 at 48000 Hz.
C29_OutputLength ==
    /\ codec.done =>
         /\ Len(codec.out)
              = RoundHalfUp(Len(codec.input) * 16000, codec.sampleRate)
         /\ codec.sampleRate = 16000 => Len(codec.out) = Len(codec.input)
    /\ newLength(4096, 48000) = 1365
    /\ newLength(4096, 16000) = 4096

\* a block at 24000 Hz whose length is rounded up, and one at 48000 Hz
C29_Witness ==
    /\ codec.done
    /\ \/ codec.sampleRate = 24000 /\ Len(codec.input) = 1 /\ Len(codec.out) = 1
       \/ codec.sampleRate = 48000 /\ Len(codec.input) = 3 /\ Len(codec.out) = 1

\* The integers nearest to num/den (two of them when num/den is half-way).
NearestInts(num, den) ==
    {k \in -32768..32768 : (2 * k - 1) * den <= 2 * num
                             /\ 2 * num <= (2 * k + 1) * den}

\* C30 (as claimed): at 16000 Hz every sample s is mapped to the integer
\* nearest to clamp(s) * 32767.
C30_TargetRateRounds ==
    (codec.done /\ codec.sampleRate = 16000) =>
        \A i \in DOMAIN codec.input :
            LET x == Clamp(codec.input[i])
            IN codec.out[i] \in NearestInts(x.num * 32767, x.den)

\* Run r has read the store in this step.
Loads(r) == runs[r].pc = "getNotes" /\ runs'[r].pc # "getNotes"

\* C21 (as claimed): when a run is over, every note that was pending when
\* the run read the store has been submitted to generateContent, whatever
\* its type and whether or not it carries its payload.
C21_EveryPendingSubmitted ==
    [][\A r \in RunIds :
         Finishes(r) =>
           \A k \in DOMAIN runs'[r].pendingNotes :
              /\ k \in DOMAIN runs'[r].results
              /\ runs'[r].results[k].out # "skipped"]_vars

\* C21 (amended): the notes a run takes from the store it read are the
\* pending ones, in store order, and when the run is over each of them that
\* is an image with its imageUrl or a pdf with its fileData has been
\* submitted to generateContent, and each of the others has been passed
\* over without a request.
C21_EnrichableSubmitted ==
    [][\A r \in RunIds :
         /\ Loads(r) =>
              runs'[r].pendingNotes \in {<<>>, SelectSeq(store', IsPending)}
         /\ Finishes(r) =>
              /\ Len(runs'[r].results) = Len(runs'[r].pendingNotes)
              /\ \A k \in DOMAIN runs'[r].pendingNotes :
                   LET n == runs'[r].pendingNotes[k]
                   IN runs'[r].results[k].out = "skipped"
                        <=> ~(n.media /\ n.type \in {"image", "pdf"})]_vars

\* a run is over that submitted one pending note and passed over another
C21_Witness ==
    \E r \in RunIds :
        /\ runs[r].pc = "done"
        /\ \E k \in DOMAIN runs[r].results : runs[r].results[k].out = "skipped"
        /\ \E k \in DOMAIN runs[r].results : runs[r].results[k].out = "committed"

\* The notes whose request failed in run q, as q took them from the store.
FailedIn(q) ==
    {q.pendingNotes[k] : k \in {j \in DOMAIN q.results :
                                   q.results[j].out = "remote"}}

\* C22 (as claimed): a note whose request failed in a run is still stored,
\* unchanged and pending, when that run is over, and a run that reads the
\* store after that run is over takes the note up again.
C22_FailedNoteRetried ==
    [][\A q \in RunIds :
         /\ Finishes(q) =>
              \A n \in FailedIn(runs'[q]) : StoredIn(store', n) = {n}
         /\ \A r \in RunIds :
              (runs[q].pc = "done" /\ Loads(r) /\ runs'[r].pendingNotes # <<>>)
                 => \A n \in FailedIn(runs[q]) :
                       \E k \in DOMAIN runs'[r].pendingNotes :
                           runs'[r].pendingNotes[k] = n]_vars

\* C23: without an API key a run of processPendingNotes makes no request
\* and no store update, every stored note stays as it is, and isSyncing is
\* false when the run is over.
C23_NoKeyNoOp ==
    [][~apiKey =>
         /\ \A r \in RunIds :
              /\ runs'[r].pc \notin {"generateContent", "updateNote.getNotes",
                                     "updateNote.set"}
              /\ runs'[r].results = <<>>
              /\ Finishes(r) => ~isSyncing'
         /\ \A a \in DOMAIN store : StoredIn(store', store[a]) = {store[a]}
         /\ Len(store') = Len(store)]_vars

\* a run is over without a key on a store that holds a pending note
C23_Witness ==
    /\ ~apiKey
    /\ ~isSyncing
    /\ \E r \in RunIds : runs[r].pc = "done" /\ runs[r].by = "online"
    /\ \E a \in DOMAIN store :
          store[a].pendingAnalysis /\ store[a].media /\ store[a].type = "pdf"

\* Every note the run took up was enriched and its update returned.
Succeeded(run) ==
    /\ run.pc = "done"
    /\ run.results # <<>>
    /\ Len(run.results) = Len(run.pendingNotes)
    /\ \A k \in DOMAIN run.results : run.results[k].out = "committed"

\* C24: once a run in which every pending note was enriched is over, a run
\* started after it makes no request and no store update, and the store
\* stays as that run left it.
C24_SecondRunIdle ==
    [][\A q \in RunIds, r \in RunIds :
         (q < r /\ Succeeded(runs[q])) =>
            /\ runs'[r].pc \in {"idle", "getNotes", "done"}
            /\ runs'[r].results = <<>>
            /\ store' = store]_vars

\* the run after a successful one is over, and the note is stored with one
\* analysis appended
C24_Witness ==
    /\ Succeeded(runs[1])
    /\ runs[2].pc = "done"
    /\ \A n \in {runs[1].pendingNotes[1]} :
          Stored(n) = {Rewritten(n, runs[1].results[1].text)}

\* Run r issues a request in this step.
Requests(r) ==
    /\ runs'[r].pc = "generateContent"
    /\ runs[r].pc # "generateContent" \/ runs[r].k # runs'[r].k

\* C25: a run has one note in hand at a time and takes its pending notes in
\* store order: it issues the request for a note only after its read of the
\* store, after the failure of the request before, or after the store
\* update of the note before has settled, when every earlier note has its
\* outcome.
C25_OneNoteAtATime ==
    [][\A r \in RunIds :
         /\ Loads(r) /\ runs'[r].pendingNotes # <<>> =>
              runs'[r].pendingNotes = SelectSeq(store', IsPending)
         /\ Requests(r) =>
              /\ runs'[r].k > runs[r].k
              /\ runs'[r].pendingNotes
                   = IF Loads(r) THEN runs'[r].pendingNotes
                     ELSE runs[r].pendingNotes
              /\ Len(runs'[r].results) = runs'[r].k - 1
              /\ runs[r].pc \in {"getNotes", "generateContent",
                                 "updateNote.set"}
              /\ runs[r].pc = "generateContent" =>
                   runs'[r].results[runs[r].k].out = "remote"
              /\ runs[r].pc = "updateNote.set" =>
                   runs'[r].results[runs[r].k].out
                      \in {"committed", "wiped", "rejected"}]_vars

\* the request for the second pending note is outstanding after the update
\* of the first one returned
C25_Witness ==
    \E r \in RunIds :
        /\ runs[r].pc = "generateContent"
        /\ runs[r].k = 2
        /\ runs[r].results[1].out = "committed"

\* The capture operations whose note has the id of n.
MadeBy(n) == {o \in OpIds : ops[o].note # <<>> /\ ops[o].note[1].id = n.id}

\* C26 (as claimed): every stored note with pendingAnalysis true was built
\* by a capture flow that read isOnline as false or whose request failed,
\* and carries the payload to analyse.
C26_PendingOnlyOffline ==
    \A a \in DOMAIN store :
        store[a].pendingAnalysis =>
            /\ store[a].media
            /\ store[a].type \in {"image", "pdf"}
            /\ \E o \in MadeBy(store[a]) : ~ops[o].online \/ ops[o].failed

\* Nothing is in flight, and no read or write of the store was rejected.
Settled ==
    /\ \A o \in OpIds : ops[o].pc \in {"unused", "done"} /\ ~ops[o].rejected
    /\ \A r \in RunIds :
          /\ ~InFlight(runs[r])
          /\ \A k \in DOMAIN runs[r].results :
                runs[r].results[k].out \in {"committed", "remote", "skipped"}

\* The ids of the notes the store holds.
StoredIds == {store[a].id : a \in DOMAIN store}

\* C27 (as claimed): once the store operations of the user and of the runs
\* have returned, whatever their interleaving, every note that was saved
\* and not deleted is in the store, and no deleted note is.
C27_NoLostUpdate ==
    Settled =>
        \A o \in OpIds :
            /\ (ops[o].kind \in {"camera", "pdf"} /\ ops[o].pc = "done"
                  /\ \A d \in OpIds : ops[d].target # ops[o].note[1].id)
                 => ops[o].note[1].id \in StoredIds
            /\ (ops[o].kind = "delete" /\ ops[o].pc = "done"
                  /\ ops[o].target # SEED_NOTE.id)
                 => ops[o].target \notin StoredIds

\* C28 (as claimed): no store operation passes a storage failure on to its
\* caller: saveNote and deleteNote return to handleAddNote and
\* handleDeleteNote, and updateNote returns to processPendingNotes.
C28_StorageFailureContained ==
    /\ \A o \in OpIds : ops[o].pc # "threw"
    /\ \A r \in RunIds : \A k \in DOMAIN runs[r].results :
          runs[r].results[k].out # "rejected"

Abs(a) == IF a >= 0 THEN a ELSE -a

\* C31 (as claimed): the 16-bit value that downsampleTo16k produces for a
\* sample s at 16000 Hz, decoded as pcmToAudioBuffer decodes it, differs
\* from clamp(s) by at most 1/32768.
C31_RoundTrip ==
    (codec.done /\ codec.sampleRate = 16000) =>
        \A i \in DOMAIN codec.input :
            LET c == Clamp(codec.input[i])
                d == Decoded(codec.out[i])
            IN Abs(c.num * d.den - d.num * c.den) <= c.den

\* C32 (as claimed): a message (audio, the interrupted signal, or both) that
\* the session delivers after stopSession has run is not acted on: the task
\* schedules no chunk, leaves the next-start cursor and leaves status idle.
C32_LateMessageIgnored ==
    [][(StopRan(1) /\ ~isActive /\ SessionMessage(1, MaxChunks, MaxDur)) =>
          /\ chunks' = chunks
          /\ activeSourcesRef' = activeSourcesRef
          /\ nextStartTimeRef' = nextStartTimeRef
          /\ status' = status]_vars

\* C33 (as claimed): in the variant that awaits the decode and the
\* microphone, what settles after stopSession is discarded: once stopSession
\* has run no chunk is scheduled, the cursor is 0 and no microphone stream is
\* held; and the chunks are scheduled in the order their messages arrived.
C33_LateResultsDiscarded ==
    /\ (StopRan(1) /\ ~isActive) =>
          /\ activeSourcesRef = {}
          /\ nextStartTimeRef = 0
          /\ mediaStreamRef = Null
          /\ \A i \in Ids : streams[i].st # "live"
    /\ \A j, k \in DOMAIN chunks : j < k => chunks[j].n < chunks[k].n

\* C34 (as claimed): when the debounce timer fires after a new chunk was
\* enqueued while it was pending, status stays speaking; and a debounce timer
\* that fires after stopSession has run leaves status as it is.  (A chunk was
\* enqueued while the firing timer was pending when a chunk is scheduled now,
\* or when a later timer is pending too and no chunk was ever stopped: each
\* timer is set by the end of a chunk that leaves nothing scheduled.)
C34_DebounceKeepsSpeaking ==
    [][DebounceFires =>
          LET enqueuedSince ==
                  \/ activeSourcesRef # {}
                  \/ /\ timers >= 2
                     /\ \A k \in DOMAIN chunks : chunks[k].stops = 0
          IN /\ (enqueuedSince /\ status = "speaking") => status' = "speaking"
             /\ ~isActive => status' = status]_vars

\* C35: within one session, whenever a chunk is scheduled status is
\* speaking; so while status is idle, connecting or listening no chunk is
\* scheduled.
C35_ScheduledMeansSpeaking ==
    activeSourcesRef # {} => status = "speaking"

\* A second chunk is scheduled after the first one has ended, with no
\* debounce timer pending.
C35_Witness ==
    /\ Len(chunks) = 2
    /\ chunks[1].ended
    /\ activeSourcesRef = {2}
    /\ timers = 0
    /\ status = "speaking"

\* C36 (as claimed): an unmount while a session is active detaches the
\* capture callback, stops the tracks of the microphone and every scheduled
\* chunk, closes the audio context and closes the remote session.
C36_UnmountReleasesAll ==
    [][(Unmount /\ Active) =>
          /\ \A i \in Ids :
                /\ ~processors'[i].onaudioprocess
                /\ streams'[i].st # "live"
                /\ contexts'[i].st # "running"
                /\ sessions[i].st \in {"connecting", "open"} =>
                       SessionReleases(Cur', i) >= 1
          /\ activeSourcesRef' = {}
          /\ \A k \in DOMAIN chunks : chunks[k].ended \/ chunks'[k].stops >= 1]_vars

\* C37 (as claimed): once a deleteNote(id) has completed, getNotes returns
\* no note with that id (no saveNote inserts it again: the ids of new notes
\* are fresh), for every id of the store, that of the seed note included.
C37_DeletedStaysDeleted ==
    \A o \in OpIds :
        (ops[o].kind = "delete" /\ ops[o].pc = "done") =>
            LET data == getNotes(store, FALSE).data
            IN \A a \in DOMAIN data : data[a].id # ops[o].target

\* C38: every note that CameraAdd or PdfAdd builds with pendingAnalysis set
\* is an image with its imageUrl or a pdf with its fileData, and so is every
\* pending note of the store; a run of processPendingNotes skips none of
\* them.
C38_PendingIsEnrichable ==
    /\ \A o \in OpIds :
          (ops[o].note # <<>> /\ ops[o].note[1].pendingAnalysis) =>
              /\ ops[o].note[1].type \in {"image", "pdf"}
              /\ ops[o].note[1].media
    /\ \A a \in DOMAIN store :
          store[a].pendingAnalysis =>
              /\ store[a].type \in {"image", "pdf"}
              /\ store[a].media
    /\ \A r \in RunIds : \A k \in DOMAIN runs[r].results :
          runs[r].results[k].out # "skipped"

\* A run has taken a pending note that a capture flow had stored and has
\* had its request answered.
C38_Witness ==
    \E r \in RunIds, o \in OpIds :
        /\ ops[o].note # <<>>
        /\ ops[o].note[1].pendingAnalysis
        /\ runs[r].pendingNotes # <<>>
        /\ runs[r].pendingNotes[1].id = ops[o].note[1].id
        /\ runs[r].results # <<>>

\* C39 (as claimed): a step of a run of processPendingNotes adds no note to
\* the store and removes none, keeps the id, the type and the payload of
\* every note, sets no pendingAnalysis that was clear, and leaves every note
\* that was not among the pending notes the run read as it is.
C39_ReconcileOnlyClears ==
    [][\A r \in RunIds :
         (RunLoads(r) \/ ModelResponds(r) \/ UpdateReads(r) \/ UpdateWrites(r)) =>
            /\ Len(store') = Len(store)
            /\ \A a \in DOMAIN store :
                  /\ store'[a].id = store[a].id
                  /\ store'[a].type = store[a].type
                  /\ store'[a].media = store[a].media
                  /\ store'[a].pendingAnalysis => store[a].pendingAnalysis
                  /\ (\A k \in DOMAIN runs[r].pendingNotes :
                         runs[r].pendingNotes[k].id # store[a].id)
                        => store'[a] = store[a]]_vars

\* C40 (as claimed): isSyncing is true while a run of processPendingNotes
\* that found pending notes is in flight, and false while no run is in
\* flight.
C40_SyncingTracksRuns ==
    /\ (\E r \in RunIds : InFlight(runs[r]) /\ runs[r].pendingNotes # <<>>)
          => isSyncing
    /\ (\A r \in RunIds : ~InFlight(runs[r])) => ~isSyncing
====
